---- MODULE Spec2Model ----
(***************************************************************************)
(* Model of the e-mail reconciliation pipeline of src/src/emailProcessor.js *)
(* (normalisation, two-phase send/open join, contact merge, multi-SDR       *)
(* aggregation).                                                            *)
(*                                                                          *)
(* Data representation                                                      *)
(*   - a JS string is a tuple of one-character strings;                     *)
(*   - a JS object (a CSV row) is a function from its own keys to values,   *)
(*     so a missing key is a key outside DOMAIN;                            *)
(*   - undefined, null, numbers and Date instants are tagged tuples whose    *)
(*     first element is a multi-character tag, which no string starts with. *)
(***************************************************************************)
EXTENDS Integers, Sequences, FiniteSets, TLC

VARIABLES
  pc,            \* position of the running entry point
  joinIn,        \* arguments of joinSendAndOpen: [sendRows, openRows]
  phase1Result,  \* value returned by phase1Matching
  phase2Result,  \* value returned by phase2Matching
  joinOut,       \* value returned by joinSendAndOpen
  contactsIn,    \* arguments of joinWithContacts: [rows, contacts]
  contactsOut,   \* value returned by joinWithContacts
  tz,            \* the host's offset from UTC in seconds (local = UTC + tz)
  sdrConfigs,    \* argument of processMultiSdrPipeline: [name, sendCsv, openCsv]*
  contactsCsv,   \* the contacts file, as the rows loadCsv resolves to
  run,           \* locals of processMultiSdrPipeline that live across the loop
  result,        \* what the entry point returned or threw
  validation,    \* what the data checker returned for `result`
  previous       \* what an earlier call of the entry point returned or threw

joinVars == <<joinIn, phase1Result, phase2Result, joinOut>>
contactVars == <<contactsIn, contactsOut>>
pipeVars == <<sdrConfigs, contactsCsv, run, result>>
auxVars == <<validation, previous>>
vars == <<pc, joinVars, contactVars, tz, pipeVars, auxVars>>

---------------------------------------------------------------------------
(* JS values *)

Undefined == <<"<undefined>">>
Null == <<"<null>">>
NaN == <<"<nan>">>
Num(n) == <<"<num>", n>>
IsNum(v) == Len(v) = 2 /\ v[1] = "<num>"
DateOf(t) == <<"<date>", t>>          \* a valid Date object, t = getTime() / 1000
EmptyStr == <<>>

IsDate(v) == Len(v) = 2 /\ v[1] = "<date>"
getTime(d) == d[2]

\* JS truthiness of the values the rows hold
Truthy(v) == v \notin {Undefined, Null, EmptyStr, Num(0), NaN}

\* a || b
JsOr(a, b) == IF Truthy(a) THEN a ELSE b

\* row[key] (undefined for a missing key)
Get(row, key) == IF key \in DOMAIN row THEN row[key] ELSE Undefined

\* { ...a, ...b }
Spread(a, b) == b @@ a

\* { ...row, key: value }  /  row.key = value
With(row, key, v) == (key :> v) @@ row

\* delete row.key
Delete(row, key) == [k \in (DOMAIN row) \ {key} |-> row[k]]

---------------------------------------------------------------------------
(* String primitives: toLowerCase, trim, includes, split(",")[0] *)

UpperChars == <<"A","B","C","D","E","F","G","H","I","J","K","L","M",
                "N","O","P","Q","R","S","T","U","V","W","X","Y","Z">>
LowerChars == <<"a","b","c","d","e","f","g","h","i","j","k","l","m",
                "n","o","p","q","r","s","t","u","v","w","x","y","z">>
WhiteSpace == {" ", "\t"}

LowerTable == [c \in {UpperChars[i] : i \in 1..26} |->
                 LowerChars[CHOOSE i \in 1..26 : UpperChars[i] = c]]

LowerChar(c) == IF c \in DOMAIN LowerTable THEN LowerTable[c] ELSE c

toLowerCase(s) == [i \in 1..Len(s) |-> LowerChar(s[i])]

RECURSIVE trimStart(_)
trimStart(s) ==
  IF s # <<>> /\ Head(s) \in WhiteSpace THEN trimStart(Tail(s)) ELSE s

RECURSIVE trimEnd(_)
trimEnd(s) ==
  IF s # <<>> /\ s[Len(s)] \in WhiteSpace
  THEN trimEnd(SubSeq(s, 1, Len(s) - 1))
  ELSE s

trim(s) == trimEnd(trimStart(s))

includes(s, sub) ==
  \E i \in 0..(Len(s) - Len(sub)) : SubSeq(s, i + 1, i + Len(sub)) = sub

\* s.split(",")[0]
RECURSIVE splitCommaFirst(_)
splitCommaFirst(s) ==
  IF s = <<>> \/ Head(s) = "," THEN <<>>
  ELSE <<Head(s)>> \o splitCommaFirst(Tail(s))

\* (v || "").toLowerCase().trim()
NormKey(v) == trim(toLowerCase(JsOr(v, EmptyStr)))

---------------------------------------------------------------------------
(* Array.prototype.filter is SelectSeq; Array.prototype.map is a function  *)
(* over the indices.                                                       *)

Range(seq) == {seq[i] : i \in 1..Len(seq)}

---------------------------------------------------------------------------
(* Dates.  A sent_date text is one of                                      *)
(*   IsoZ(mo, d, tod)    "2025-MO-DDTHH:MM:SSZ"   (UTC)                     *)
(*   Slash(a, b, tod)    "AA/BB/2025 HH:MM:SS"                              *)
(*   any other string    (no date at all, e.g. "n/a")                       *)
(* where tod is HH:MM:SS as seconds of the day.  Instants are seconds since *)
(* 2025-01-01T00:00:00Z; the year is fixed, so the calendar is 2025's.      *)

IsoZ(mo, d, tod) == <<"<iso>", mo, d, tod>>
Slash(a, b, tod) == <<"<slash>", a, b, tod>>
IsIso(s) == Len(s) = 4 /\ s[1] = "<iso>"
IsSlash(s) == Len(s) = 4 /\ s[1] = "<slash>"

DaysBefore == <<0, 31, 59, 90, 120, 151, 181, 212, 243, 273, 304, 334>>

\* MakeDay/MakeTime of the Date constructor: civil fields -> seconds
CivilSeconds(mo, d, tod) == (DaysBefore[mo] + d - 1) * 86400 + tod

\* getMonth() + 1, getDate(), and getHours/getMinutes/getSeconds as seconds
LocalSeconds(date) == getTime(date) + tz
getMonth1(date) ==
  LET doy == LocalSeconds(date) \div 86400
  IN  CHOOSE mo \in 1..12 :
        DaysBefore[mo] <= doy /\ (mo = 12 \/ doy < DaysBefore[mo + 1])
getDate(date) ==
  (LocalSeconds(date) \div 86400) - DaysBefore[getMonth1(date)] + 1
getTimeOfDay(date) == LocalSeconds(date) % 86400

\* new Date(s) for a string s; Null stands for an Invalid Date.
\* An ISO text with Z is UTC.  The engines' fallback parser reads
\* "AA/BB/YYYY HH:MM:SS" as month AA, day BB, local time, and rejects AA > 12.
NativeDate(s) ==
  IF IsIso(s) THEN DateOf(CivilSeconds(s[2], s[3], s[4]))
  ELSE IF IsSlash(s) /\ s[2] \in 1..12 /\ s[3] \in 1..31
       THEN DateOf(CivilSeconds(s[2], s[3], s[4]) - tz)
  ELSE Null

\* parseDateFlexible(value)
parseDateFlexible(value) ==
  IF ~Truthy(value) THEN Null
  ELSE LET s == IF IsIso(value) \/ IsSlash(value) THEN value ELSE trim(value)
           d == NativeDate(s)
       IN  IF d # Null THEN d
           ELSE IF IsSlash(s) /\ s[3] \in 1..12    \* DD/MM/YYYY HH:MM:SS
                THEN DateOf(CivilSeconds(s[3], s[2], s[4]) - tz)
           ELSE Null

\* the `${dd}/${mm}/${yyyy} ${HH}:${MM}:${SS}` text of normalizeOpen
FormatDMY(date) == Slash(getDate(date), getMonth1(date), getTimeOfDay(date))

---------------------------------------------------------------------------
(* Number(v) for the values a Views/Clicks cell holds: a number, or a      *)
(* string.  A string converts as a decimal numeral with an optional sign   *)
(* and an optional fraction ("" is 0, any other text is NaN; numerals with  *)
(* an exponent or a radix prefix are not among the inputs).  A number that  *)
(* is not an integer is Dec(sign, whole, frac): sign * whole.frac, where    *)
(* frac is the fraction's digits without trailing zeros.                    *)

Dec(sign, whole, frac) == <<"<dec>", sign, whole, frac>>
IsDec(v) == Len(v) = 4 /\ v[1] = "<dec>"

Digits == <<"0","1","2","3","4","5","6","7","8","9">>
IsDigit(c) == \E i \in 1..10 : Digits[i] = c
DigitVal(c) == (CHOOSE i \in 1..10 : Digits[i] = c) - 1

RECURSIVE DecimalValue(_)
DecimalValue(s) ==
  IF s = <<>> THEN 0
  ELSE DecimalValue(SubSeq(s, 1, Len(s) - 1)) * 10 + DigitVal(s[Len(s)])

RECURSIVE StripZeros(_)
StripZeros(frac) ==
  IF frac # <<>> /\ frac[Len(frac)] = "0"
  THEN StripZeros(SubSeq(frac, 1, Len(frac) - 1))
  ELSE frac

\* StringToNumber of a trimmed, non-empty text
StringToNumber(t) ==
  LET signed == t[1] \in {"+", "-"}
      sign == IF t[1] = "-" THEN -1 ELSE 1
      u == IF signed THEN Tail(t) ELSE t
      dots == {i \in 1..Len(u) : u[i] = "."}
      k == IF dots = {} THEN Len(u) + 1 ELSE CHOOSE i \in dots : TRUE
      whole == SubSeq(u, 1, k - 1)
      frac == SubSeq(u, k + 1, Len(u))
  IN  IF /\ Cardinality(dots) <= 1
         /\ Len(whole) + Len(frac) > 0
         /\ \A i \in 1..Len(whole) : IsDigit(whole[i])
         /\ \A i \in 1..Len(frac) : IsDigit(frac[i])
      THEN IF StripZeros(frac) = <<>>
           THEN Num(sign * DecimalValue(whole))
           ELSE Dec(sign, DecimalValue(whole), StripZeros(frac))
      ELSE NaN

Number(v) ==
  IF IsNum(v) \/ IsDec(v) THEN v
  ELSE IF v = Null THEN Num(0)
  ELSE IF v \in {Undefined, NaN} THEN NaN
  ELSE LET t == trim(v)
       IN  IF t = <<>> THEN Num(0) ELSE StringToNumber(t)

---------------------------------------------------------------------------
(* Normalisation *)

\* v != null
NotNullish(v) == v \notin {Null, Undefined}

\* if (row[alias] && !row[canon]) out[canon] = row[alias];
\* (the companion `if (row[canon]) out[canon] = row[canon]` rewrites the
\* copy with the value it already has)
MapAlias(out, row, alias, canon) ==
  IF Truthy(Get(row, alias)) /\ ~Truthy(Get(row, canon))
  THEN With(out, canon, row[alias])
  ELSE out

LoopworkDomain == <<"l","o","o","p","w","o","r","k",".","c","o">>

\* Mutant of KeepSendRow: the domain is compared as it is written.
KeepSendRowCaseSensitive(row) ==
  LET domain == JsOr(Get(row, "Domain"), JsOr(Get(row, "domain"), EmptyStr))
  IN  ~includes(domain, LoopworkDomain)

\* the filter callback of normalizeSend: TRUE for the rows that are kept
KeepSendRow(row) ==
  LET domain == JsOr(Get(row, "Domain"), JsOr(Get(row, "domain"), EmptyStr))
  IN  ~includes(toLowerCase(domain), LoopworkDomain)

\* the map callback of normalizeSend
NormalizeSendRow(row) ==
  LET o1 == MapAlias(row, row, "Recipient Name", "recipient_name")
      o2 == MapAlias(o1, row, "Date", "sent_date")
      o3 == MapAlias(o2, row, "recipient_email", "Recipient Email")
  IN  IF NotNullish(Get(o3, "recipient_name"))
      THEN With(o3, "recipient_name", trim(o3["recipient_name"]))
      ELSE o3

normalizeSend(rows) ==
  LET filtered == SelectSeq(rows, KeepSendRow)
  IN  [i \in 1..Len(filtered) |-> NormalizeSendRow(filtered[i])]

\* out.X = out.X != null && out.X !== "" ? Number(out.X) || 0 : 0
CoerceCount(v) ==
  IF NotNullish(v) /\ v # EmptyStr THEN JsOr(Number(v), Num(0)) ELSE Num(0)

\* the map callback of normalizeOpen
NormalizeOpenRow(row) ==
  LET o1 == MapAlias(row, row, "Recipient", "recipient_name")
      o2 == MapAlias(o1, row, "Sent", "sent_date")
      o3 == MapAlias(o2, row, "Opens", "Views")
      o4 == MapAlias(o3, row, "Last Opened", "last_opened")
      o5 == IF NotNullish(Get(o4, "recipient_name"))
            THEN LET v == trim(o4["recipient_name"])
                 IN  With(o4, "recipient_name",
                          IF includes(v, <<",">>) THEN trim(splitCommaFirst(v)) ELSE v)
            ELSE o4
      o6 == IF Truthy(Get(o5, "sent_date")) /\ NativeDate(o5["sent_date"]) # Null
            THEN With(o5, "sent_date", FormatDMY(NativeDate(o5["sent_date"])))
            ELSE o5
      o7 == With(o6, "Views", CoerceCount(Get(o6, "Views")))
  IN  With(o7, "Clicks", CoerceCount(Get(o7, "Clicks")))

normalizeOpen(rows) == [i \in 1..Len(rows) |-> NormalizeOpenRow(rows[i])]

\* the map callback of normalizeContacts
NormalizeContactRow(row) ==
  LET o1 == IF ~Truthy(Get(row, "Email")) /\ Truthy(Get(row, "email"))
            THEN With(row, "Email", row["email"])
            ELSE row
  IN  IF NotNullish(Get(o1, "Email"))
      THEN With(o1, "Email", toLowerCase(trim(o1["Email"])))
      ELSE o1

normalizeContacts(rows) == [i \in 1..Len(rows) |-> NormalizeContactRow(rows[i])]

\* validateRequired(rows, cols, label): "ok", or the error it throws
validateRequired(rows, cols) ==
  IF Len(rows) = 0 THEN [error |-> "no rows found", missing |-> {}]
  ELSE LET missing == {c \in cols : c \notin DOMAIN rows[1]}
       IN  IF missing # {} THEN [error |-> "missing required columns", missing |-> missing]
           ELSE [error |-> "none", missing |-> {}]

SendRequired == {"recipient_name", "sent_date", "Recipient Email"}
OpenRequired == {"recipient_name", "sent_date", "Views", "Clicks"}
ContactRequired == {"Email"}

\* rows.forEach((r) => (r.sent_date_parsed = parseDateFlexible(r.sent_date)))
ParseDates(rows) ==
  [i \in 1..Len(rows) |->
     With(rows[i], "sent_date_parsed", parseDateFlexible(Get(rows[i], "sent_date")))]

\* rows.filter((r) => r.sent_date_parsed)
ValidDates(rows) == SelectSeq(rows, LAMBDA r : Truthy(r["sent_date_parsed"]))

---------------------------------------------------------------------------
(* Join: Send <-> Open *)

Phase1End == 12       \* for (increment = 0; increment < 12; ...)
Phase2Start == 12     \* for (increment = 12; ...
Phase2Last == 60      \*      ...; increment <= 60; ...)

\* failure_reason texts
Reason(text) == <<"<text>", text>>
ReasonAt(prefix, increment, suffix) == <<"<text>", prefix, increment, suffix>>

\* openRows.map((open, idx) => ({ ...open, _index: idx }))
WithIndex(openRows) ==
  [i \in 1..Len(openRows) |-> With(openRows[i], "_index", Num(i - 1))]

\* openByEmail.get(email) || []  (buckets keep the order of openRows)
BucketOf(indexedOpens, email) ==
  SelectSeq(indexedOpens, LAMBDA open : NormKey(Get(open, "recipient_name")) = email)

\* emailOpens.filter(open => open.sent_date_parsed &&
\*                   open.sent_date_parsed.getTime() === searchTime.getTime())
MatchesAt(emailOpens, sendTime, increment) ==
  SelectSeq(emailOpens,
            LAMBDA open : /\ Truthy(Get(open, "sent_date_parsed"))
                          /\ getTime(open["sent_date_parsed"]) = getTime(sendTime) + increment)

\* { ...send, Views: matched.Views || 0, Clicks: matched.Clicks || 0,
\*   last_opened: matched.last_opened || matched.sent_date }
MergeOpen(send, matched) ==
  With(With(With(send,
    "Views", JsOr(Get(matched, "Views"), Num(0))),
    "Clicks", JsOr(Get(matched, "Clicks"), Num(0))),
    "last_opened", JsOr(Get(matched, "last_opened"), Get(matched, "sent_date")))

\* Mutant of ScanIncrements: several matches at one increment are resolved by
\* taking the first one.
RECURSIVE ScanIncrementsPickFirst(_, _, _, _)
ScanIncrementsPickFirst(emailOpens, sendTime, increment, last) ==
  IF increment > last THEN [kind |-> "none"]
  ELSE LET matches == MatchesAt(emailOpens, sendTime, increment)
       IN  IF Len(matches) >= 1
           THEN [kind |-> "one", matched |-> matches[1], increment |-> increment]
           ELSE ScanIncrementsPickFirst(emailOpens, sendTime, increment + 1, last)

\* The increment loop of both phases, from `increment` up to `last`:
\* stops at the first increment with any match.
RECURSIVE ScanIncrements(_, _, _, _)
ScanIncrements(emailOpens, sendTime, increment, last) ==
  IF increment > last THEN [kind |-> "none"]
  ELSE LET matches == MatchesAt(emailOpens, sendTime, increment)
       IN  IF Len(matches) = 1
           THEN [kind |-> "one", matched |-> matches[1], increment |-> increment]
           ELSE IF Len(matches) > 1
           THEN [kind |-> "many", count |-> Len(matches), increment |-> increment]
           ELSE ScanIncrements(emailOpens, sendTime, increment + 1, last)

\* body of sendRows.forEach in phase1Matching; acc = [successful, failed,
\* usedIndices, from], where `from` is a history field: the _index of the
\* open merged into each row of `successful`, in the same order.
Phase1Step(acc, send, indexedOpens) ==
  LET email == NormKey(Get(send, "recipient_name"))
      sendTime == Get(send, "sent_date_parsed")
  IN  IF ~Truthy(sendTime)
      THEN [acc EXCEPT !.failed =
              Append(@, With(send, "failure_reason", Reason("invalid_send_date")))]
      ELSE LET r == ScanIncrements(BucketOf(indexedOpens, email), sendTime,
                                   0, Phase1End - 1)
           IN  CASE r.kind = "one" ->
                      [acc EXCEPT !.successful = Append(@, MergeOpen(send, r.matched)),
                                  !.usedIndices = @ \cup {r.matched["_index"]},
                                  !.from = Append(@, r.matched["_index"])]
                 [] r.kind = "many" ->
                      [acc EXCEPT !.failed = Append(@,
                         With(With(send,
                           "failure_reason",
                           ReasonAt("multiple_matches_at_plus_", r.increment, "_seconds")),
                           "match_count", Num(r.count)))]
                 [] OTHER ->
                      [acc EXCEPT !.failed = Append(@,
                         With(send, "failure_reason", Reason("no_match_within_11_seconds")))]

\* Mutant of Phase1Loop: every send only sees the opens that the sends before
\* it have not consumed.
RECURSIVE Phase1LoopConsuming(_, _, _, _)
Phase1LoopConsuming(sendRows, indexedOpens, i, acc) ==
  IF i > Len(sendRows) THEN acc
  ELSE Phase1LoopConsuming(sendRows, indexedOpens, i + 1,
         Phase1Step(acc, sendRows[i],
                    SelectSeq(indexedOpens,
                              LAMBDA open : open["_index"] \notin acc.usedIndices)))

\* sendRows.forEach in phase1Matching: every send is looked up in the same
\* openByEmail map
RECURSIVE Phase1Loop(_, _, _, _)
Phase1Loop(sendRows, indexedOpens, i, acc) ==
  IF i > Len(sendRows) THEN acc
  ELSE Phase1Loop(sendRows, indexedOpens, i + 1,
                  Phase1Step(acc, sendRows[i], indexedOpens))

phase1Matching(sendRows, openRows) ==
  Phase1Loop(sendRows, WithIndex(openRows), 1,
             [successful |-> <<>>, failed |-> <<>>, usedIndices |-> {}, from |-> <<>>])

\* Mutant of UnusedOpens: Phase 2 looks at every open again.
UnusedOpensEvery(openRows, usedIndices) == WithIndex(openRows)

\* openRows.map(...).filter((open) => !usedIndices.has(open._index))
UnusedOpens(openRows, usedIndices) ==
  SelectSeq(WithIndex(openRows), LAMBDA open : open["_index"] \notin usedIndices)

\* body of failedRecords.forEach in phase2Matching
Phase2Step(acc, failed, unusedOpens) ==
  LET email == NormKey(Get(failed, "recipient_name"))
      sendTime == Get(failed, "sent_date_parsed")
  IN  IF ~Truthy(sendTime)
      THEN [acc EXCEPT !.failed =
              Append(@, With(failed, "failure_reason", Reason("invalid_send_date")))]
      ELSE LET r == ScanIncrements(BucketOf(unusedOpens, email), sendTime,
                                   Phase2Start, Phase2Last)
           IN  CASE r.kind = "one" ->
                      [acc EXCEPT !.successful = Append(@, MergeOpen(failed, r.matched)),
                                  !.from = Append(@, r.matched["_index"])]
                 [] r.kind = "many" ->
                      [acc EXCEPT !.failed = Append(@,
                         With(With(failed,
                           "failure_reason",
                           ReasonAt("multiple_matches_at_plus_", r.increment, "_seconds_phase2")),
                           "match_count", Num(r.count)))]
                 [] OTHER ->
                      [acc EXCEPT !.failed = Append(@,
                         With(failed, "failure_reason", Reason("no_match_within_60_seconds")))]

RECURSIVE Phase2Loop(_, _, _, _)
Phase2Loop(failedRecords, unusedOpens, i, acc) ==
  IF i > Len(failedRecords) THEN acc
  ELSE Phase2Loop(failedRecords, unusedOpens, i + 1,
                  Phase2Step(acc, failedRecords[i], unusedOpens))

phase2Matching(failedRecords, openRows, usedIndices) ==
  Phase2Loop(failedRecords, UnusedOpens(openRows, usedIndices), 1,
             [successful |-> <<>>, failed |-> <<>>, from |-> <<>>])

\* finalFailed.map(...): drop the failure markers, add NULL open fields
UnmatchedWithNulls(failed) ==
  With(With(With(Delete(Delete(failed, "failure_reason"), "match_count"),
    "Views", Null), "Clicks", Null), "last_opened", Null)

\* Mutant of JoinResult: an inner join, the unmatched sends are dropped.
JoinResultInner(p1, p2) ==
  [sendOpenSuccess |-> p1.successful \o p2.successful,
   sendOpenFailures |-> <<>>,
   from |-> p1.from \o p2.from]

\* the return value of joinSendAndOpen from the two phases' results
\* (`from` is the history field: Null for a null-filled row)
JoinResult(p1, p2) ==
  [sendOpenSuccess |-> p1.successful \o p2.successful
                        \o [i \in 1..Len(p2.failed) |-> UnmatchedWithNulls(p2.failed[i])],
   sendOpenFailures |-> <<>>,
   from |-> p1.from \o p2.from \o [i \in 1..Len(p2.failed) |-> Null]]

\* Mutant of Phase1Failed: Phase 2 goes over every send again, the ones
\* Phase 1 merged included.
Phase1FailedWithMerged(phase1) == phase1.successful \o phase1.failed

\* const phase1Failed = phase1Result.failed: the sends Phase 2 is given
Phase1Failed(phase1) == phase1.failed

joinSendAndOpen(sendRows, openRows) ==
  LET p1 == phase1Matching(sendRows, openRows)
      p2 == phase2Matching(Phase1Failed(p1), openRows, p1.usedIndices)
  IN  JoinResult(p1, p2)

---------------------------------------------------------------------------
(* Join: with contacts *)

\* Mutant of ContactLookup: a later duplicate replaces the earlier contact.
RECURSIVE ContactLookupLastWins(_, _, _)
ContactLookupLastWins(contactRows, i, lookup) ==
  IF i > Len(contactRows) THEN lookup
  ELSE LET email == NormKey(Get(contactRows[i], "Email"))
       IN  ContactLookupLastWins(contactRows, i + 1,
             IF Truthy(email)
             THEN (email :> contactRows[i]) @@ lookup
             ELSE lookup)

\* contactRows.forEach: contactLookup as a function from e-mail to contact;
\* an e-mail already in the map is not set again
RECURSIVE ContactLookup(_, _, _)
ContactLookup(contactRows, i, lookup) ==
  IF i > Len(contactRows) THEN lookup
  ELSE LET email == NormKey(Get(contactRows[i], "Email"))
       IN  ContactLookup(contactRows, i + 1,
             IF Truthy(email) /\ email \notin DOMAIN lookup
             THEN lookup @@ (email :> contactRows[i])
             ELSE lookup)

\* Mutant of CompanyUrlKey: the URL is used as the map key as it is written.
CompanyUrlKeyRaw(value) == value

\* String(merged["Company URL"]).toLowerCase().trim()
CompanyUrlKey(value) == trim(toLowerCase(value))

\* body of sendOpenRows.forEach in joinWithContacts;
\* acc = [successful, failures, companyUrlToId, nextId]
ContactStep(acc, row, contactLookup) ==
  LET email == NormKey(Get(row, "Recipient Email"))
  IN  IF email \in DOMAIN contactLookup
      THEN LET merged == Spread(row, contactLookup[email])
           IN  IF Truthy(Get(merged, "Company URL"))
               THEN LET url == CompanyUrlKey(merged["Company URL"])
                        known == url \in DOMAIN acc.companyUrlToId
                        id == IF known THEN acc.companyUrlToId[url] ELSE acc.nextId
                    IN  [successful |-> Append(acc.successful,
                                               With(merged, "Company URL ID", Num(id))),
                         failures |-> acc.failures,
                         companyUrlToId |-> IF known THEN acc.companyUrlToId
                                            ELSE acc.companyUrlToId @@ (url :> id),
                         nextId |-> IF known THEN acc.nextId ELSE acc.nextId + 1]
               ELSE [acc EXCEPT !.successful = Append(@, merged)]
      ELSE [acc EXCEPT !.failures = Append(@,
              With(row, "failure_reason", Reason("Send email not found in contacts")))]

\* Mutant of ContactLoop: the rows are visited from the last to the first.
RECURSIVE ContactLoopBackwards(_, _, _, _)
ContactLoopBackwards(sendOpenRows, contactLookup, i, acc) ==
  IF i > Len(sendOpenRows) THEN acc
  ELSE ContactLoopBackwards(sendOpenRows, contactLookup, i + 1,
         ContactStep(acc, sendOpenRows[Len(sendOpenRows) - i + 1], contactLookup))

\* sendOpenRows.forEach in joinWithContacts
RECURSIVE ContactLoop(_, _, _, _)
ContactLoop(sendOpenRows, contactLookup, i, acc) ==
  IF i > Len(sendOpenRows) THEN acc
  ELSE ContactLoop(sendOpenRows, contactLookup, i + 1,
                   ContactStep(acc, sendOpenRows[i], contactLookup))

joinWithContacts(sendOpenRows, contactRows) ==
  LET acc == ContactLoop(sendOpenRows, ContactLookup(contactRows, 1, <<>>), 1,
                         [successful |-> <<>>, failures |-> <<>>,
                          companyUrlToId |-> <<>>, nextId |-> 1])
  IN  [successful |-> acc.successful, contactFailures |-> acc.failures]

---------------------------------------------------------------------------
(* The two entry points *)

sSDR == <<"S","D","R">>

\* what an entry point throws: validateRequired's error for the file it was
\* given the label of (with the missing columns it lists), or one of
\* processMultiSdrPipeline's own errors (the label is then "")
Thrown(label, message, missing) ==
  [status |-> "thrown", label |-> label, message |-> message, missing |-> missing]

\* sendOpenSuccess.forEach((row) => { row.SDR_Name = label; })
TagRows(rows, label) == [i \in 1..Len(rows) |-> With(rows[i], "SDR_Name", label)]

\* Mutant of SdrStat: the batch's total counts the rows that reached the join.
SdrStatJoinedOnly(label, sendNorm, sendOpenSuccess, sendOpenFailures) ==
  [name |-> label,
   total_send_records |-> Len(sendOpenSuccess) + Len(sendOpenFailures),
   matched |-> Len(sendOpenSuccess),
   failures |-> Len(sendOpenFailures)]

\* the record pushed to sdrStats
SdrStat(label, sendNorm, sendOpenSuccess, sendOpenFailures) ==
  [name |-> label,
   total_send_records |-> Len(sendNorm),
   matched |-> Len(sendOpenSuccess),
   failures |-> Len(sendOpenFailures)]

\* const stats = { ... }
Stats(totalSend, totalOpen, contactsNorm, sendOpenSuccess, sendOpenFailures, joined) ==
  [total_send_records |-> totalSend,
   total_open_records |-> totalOpen,
   total_contact_records |-> Len(contactsNorm),
   send_open_success |-> Len(sendOpenSuccess),
   send_open_failures |-> Len(sendOpenFailures),
   contact_join_success |-> Len(joined.successful),
   contact_join_failures |-> Len(joined.contactFailures)]

\* steps 3 and 4 of both entry points: parse the dates, drop the rows whose
\* date is invalid, join
JoinValid(sendNorm, openNorm) ==
  joinSendAndOpen(ValidDates(ParseDates(sendNorm)), ValidDates(ParseDates(openNorm)))

\* processEmailPipeline(sendCsv, openCsv, contactsCsv) on parsed files
processEmailPipeline(sendRows, openRows, contactRows) ==
  LET sendNorm == normalizeSend(sendRows)
      openNorm == normalizeOpen(openRows)
      contactsNorm == normalizeContacts(contactRows)
      sendCheck == validateRequired(sendNorm, SendRequired)
      openCheck == validateRequired(openNorm, OpenRequired)
      contactCheck == validateRequired(contactsNorm, ContactRequired)
      so == JoinValid(sendNorm, openNorm)
      joined == joinWithContacts(so.sendOpenSuccess, contactsNorm)
  IN  IF sendCheck.error # "none" THEN Thrown("Send CSV", sendCheck.error, sendCheck.missing)
      ELSE IF openCheck.error # "none" THEN Thrown("Open CSV", openCheck.error, openCheck.missing)
      ELSE IF contactCheck.error # "none" THEN Thrown("Contacts CSV", contactCheck.error, contactCheck.missing)
      ELSE [status |-> "returned",
            successful |-> joined.successful,
            failed |-> so.sendOpenFailures \o joined.contactFailures,
            stats |-> Stats(Len(sendNorm), Len(openNorm), contactsNorm,
                            so.sendOpenSuccess, so.sendOpenFailures, joined)]

---------------------------------------------------------------------------
(* The data checker, src/src/utils/dataChecker.js.  emailData is a function *)
(* from its own keys (successful, failed, stats, sdrStats); the counters of *)
(* stats and sdrStats are numbers.  An error or a warning is the tuple of   *)
(* its message's fixed text and the numbers the message interpolates.       *)

sUnassigned == <<"U","n","a","s","s","i","g","n","e","d">>

\* emailData.stats?.[key] || 0
StatOrZero(emailData, key) ==
  IF "stats" \in DOMAIN emailData /\ key \in DOMAIN emailData["stats"]
  THEN emailData["stats"][key]
  ELSE 0

\* emailData.failed?.length || 0
FailedLength(emailData) ==
  IF "failed" \in DOMAIN emailData THEN Len(emailData["failed"]) ELSE 0

\* the forEach that adds up sdrStat[field] || 0
RECURSIVE SdrStatsSum(_, _)
SdrStatsSum(sdrStats, field) ==
  IF sdrStats = <<>> THEN 0
  ELSE (IF field \in DOMAIN sdrStats[1] THEN sdrStats[1][field] ELSE 0)
         + SdrStatsSum(Tail(sdrStats), field)

\* steps 3 to 5 of validateSdrSendData: the errors of the two stats checks
StatsErrors(emailData) ==
  LET processedTotalRecords == Len(emailData["successful"]) + FailedLength(emailData)
      statsTotalSends == StatOrZero(emailData, "total_send_records")
      statsSendOpenSuccess == StatOrZero(emailData, "send_open_success")
      statsSendOpenFailed == StatOrZero(emailData, "send_open_failed")
      statsCalculatedTotal == statsSendOpenSuccess + statsSendOpenFailed
  IN  (IF statsTotalSends > 0 /\ statsTotalSends # statsCalculatedTotal
       THEN << <<"Stats inconsistency", statsTotalSends, statsSendOpenSuccess,
                 statsSendOpenFailed, statsCalculatedTotal>> >>
       ELSE <<>>)
      \o
      (IF statsTotalSends > 0 /\ processedTotalRecords # statsTotalSends
       THEN << <<"Data mismatch", processedTotalRecords, statsTotalSends>> >>
       ELSE <<>>)

\* step 6 of validateSdrSendData: the errors of the per-SDR sums
SdrStatsErrors(emailData) ==
  IF "sdrStats" \notin DOMAIN emailData THEN <<>>
  ELSE
    LET statsTotalSends == StatOrZero(emailData, "total_send_records")
        statsSendOpenSuccess == StatOrZero(emailData, "send_open_success")
        statsSendOpenFailed == StatOrZero(emailData, "send_open_failed")
        sdrStatsTotalSends == SdrStatsSum(emailData["sdrStats"], "total_send_records")
        sdrStatsMatched == SdrStatsSum(emailData["sdrStats"], "matched")
        sdrStatsFailed == SdrStatsSum(emailData["sdrStats"], "failures")
    IN  (IF statsTotalSends > 0 /\ sdrStatsTotalSends # statsTotalSends
         THEN << <<"SDR stats sum mismatch", sdrStatsTotalSends, statsTotalSends>> >>
         ELSE <<>>)
        \o
        (IF statsSendOpenSuccess > 0 /\ sdrStatsMatched # statsSendOpenSuccess
         THEN << <<"SDR matched sum mismatch", sdrStatsMatched, statsSendOpenSuccess>> >>
         ELSE <<>>)
        \o
        (IF statsSendOpenFailed > 0 /\ sdrStatsFailed # statsSendOpenFailed
         THEN << <<"SDR failures sum mismatch", sdrStatsFailed, statsSendOpenFailed>> >>
         ELSE <<>>)

\* (r) => !r["Recipient Email"] && !r.Email
WithoutEmail(r) == ~Truthy(Get(r, "Recipient Email")) /\ ~Truthy(Get(r, "Email"))

\* (r) => !r.Views || r.Views === "" || Number(r.Views) === 0
WithoutViews(r) ==
  \/ ~Truthy(Get(r, "Views"))
  \/ r["Views"] = EmptyStr
  \/ Number(r["Views"]) = Num(0)

\* how many rows satisfy the filter, given as the set of their indices
CountOf(indices) == Cardinality(indices)

\* steps 7 to 10 of validateSdrSendData: results.summary without its status
\* text (sdrDistribution is the function from each name to its count)
Summary(emailData) ==
  LET rows == emailData["successful"]
      nameOf(i) == JsOr(Get(rows[i], "SDR_Name"),
                        JsOr(Get(rows[i], "Account Owner"), sUnassigned))
      names == {nameOf(i) : i \in 1..Len(rows)}
  IN  [processedTotalSends |-> Len(rows),
       processedFailed |-> FailedLength(emailData),
       processedTotalRecords |-> Len(rows) + FailedLength(emailData),
       statsTotalSends |-> StatOrZero(emailData, "total_send_records"),
       statsSendOpenSuccess |-> StatOrZero(emailData, "send_open_success"),
       statsSendOpenFailed |-> StatOrZero(emailData, "send_open_failed"),
       uniqueRecipients |->
         Cardinality({JsOr(Get(rows[i], "Recipient Email"), Get(rows[i], "Email")) :
                        i \in 1..Len(rows)} \ {Undefined, Null, EmptyStr}),
       recordsWithoutEmail |-> CountOf({i \in 1..Len(rows) : WithoutEmail(rows[i])}),
       recordsWithoutViews |-> CountOf({i \in 1..Len(rows) : WithoutViews(rows[i])}),
       sdrCount |-> Cardinality(names),
       sdrDistribution |->
         [n \in names |-> Cardinality({i \in 1..Len(rows) : nameOf(i) = n})]]

\* step 9 of validateSdrSendData: results.warnings
Warnings(emailData) ==
  LET rows == emailData["successful"]
      recordsWithoutEmail == CountOf({i \in 1..Len(rows) : WithoutEmail(rows[i])})
  IN  IF recordsWithoutEmail > 0
      THEN << <<"records missing recipient email addresses", recordsWithoutEmail>> >>
      ELSE <<>>

\* validateSdrSendData(emailData, sdrConfigs): results (details.sdrBreakdown
\* copies sdrStats and adds a display text)
validateSdrSendData(emailData) ==
  IF "successful" \notin DOMAIN emailData
  THEN [passed |-> FALSE,
        errors |-> << <<"Invalid emailData structure">> >>,
        warnings |-> <<>>,
        summary |-> <<>>]
  ELSE LET errors == StatsErrors(emailData) \o SdrStatsErrors(emailData)
       IN  [passed |-> errors = <<>>,
            errors |-> errors,
            warnings |-> Warnings(emailData),
            summary |-> Summary(emailData)]

sUnknown == <<"U","n","k","n","o","w","n">>

\* the loop over sdrConfigs of compareRawVsProcessed: sdrRawCounts, the
\* function from config.name || "Unknown" to the row count of the send file
\* (a later batch of the same name replaces the entry)
RECURSIVE SdrRawCounts(_, _, _)
SdrRawCounts(configs, i, counts) ==
  IF i > Len(configs) THEN counts
  ELSE SdrRawCounts(configs, i + 1,
         (JsOr(configs[i].name, sUnknown) :> Len(configs[i].sendCsv)) @@ counts)

\* totalRawSends
RECURSIVE TotalRawSends(_)
TotalRawSends(configs) ==
  IF configs = <<>> THEN 0
  ELSE Len(configs[1].sendCsv) + TotalRawSends(Tail(configs))

\* sdrRawCounts[stat.name] || 0
RawCountOf(sdrRawCounts, name) ==
  IF name \in DOMAIN sdrRawCounts THEN sdrRawCounts[name] ELSE 0

\* stat.total_send_records || 0
ProcessedCountOf(stat) ==
  IF "total_send_records" \in DOMAIN stat THEN stat["total_send_records"] ELSE 0

\* the forEach over emailData.sdrStats: the per-SDR errors, in order
RECURSIVE SdrComparisonErrors(_, _, _)
SdrComparisonErrors(sdrStats, i, sdrRawCounts) ==
  IF i > Len(sdrStats) THEN <<>>
  ELSE LET rawCount == RawCountOf(sdrRawCounts, sdrStats[i].name)
           processedCount == ProcessedCountOf(sdrStats[i])
       IN  (IF rawCount # processedCount
            THEN << <<"SDR", sdrStats[i].name, rawCount, processedCount>> >>
            ELSE <<>>)
           \o SdrComparisonErrors(sdrStats, i + 1, sdrRawCounts)

\* results.comparison.sdrBreakdown: a later stat of the same name replaces
\* the entry
RECURSIVE SdrComparisons(_, _, _, _)
SdrComparisons(sdrStats, i, sdrRawCounts, acc) ==
  IF i > Len(sdrStats) THEN acc
  ELSE LET rawCount == RawCountOf(sdrRawCounts, sdrStats[i].name)
           processedCount == ProcessedCountOf(sdrStats[i])
       IN  SdrComparisons(sdrStats, i + 1, sdrRawCounts,
             (sdrStats[i].name :> [raw |-> rawCount,
                                   processed |-> processedCount,
                                   match |-> rawCount = processedCount,
                                   difference |-> rawCount - processedCount]) @@ acc)

\* compareRawVsProcessed(sdrConfigs, emailData): results
compareRawVsProcessed(configs, emailData) ==
  IF "successful" \notin DOMAIN emailData
  THEN [passed |-> FALSE, errors |-> << <<"Comparison error">> >>,
        warnings |-> <<>>, comparison |-> <<>>]
  ELSE
    LET totalRawSends == TotalRawSends(configs)
        sdrRawCounts == SdrRawCounts(configs, 1, <<>>)
        processedTotal == Len(emailData["successful"]) + FailedLength(emailData)
        statsTotal == StatOrZero(emailData, "total_send_records")
        hasSdrStats == "sdrStats" \in DOMAIN emailData
        errors ==
          (IF totalRawSends # processedTotal
           THEN << <<"Raw sends != Processed total", totalRawSends, processedTotal,
                     totalRawSends - processedTotal>> >>
           ELSE <<>>)
          \o
          (IF statsTotal > 0 /\ totalRawSends # statsTotal
           THEN << <<"Raw sends != Stats total", totalRawSends, statsTotal,
                     totalRawSends - statsTotal>> >>
           ELSE <<>>)
          \o
          (IF hasSdrStats
           THEN SdrComparisonErrors(emailData["sdrStats"], 1, sdrRawCounts)
           ELSE <<>>)
    IN  [passed |-> errors = <<>>,
         errors |-> errors,
         warnings |-> <<>>,
         comparison |->
           [totalRawSends |-> totalRawSends,
            processedTotal |-> processedTotal,
            statsTotal |-> statsTotal,
            difference |-> totalRawSends - processedTotal,
            match |-> totalRawSends = processedTotal]
           @@ (IF hasSdrStats
               THEN ("sdrBreakdown" :>
                       SdrComparisons(emailData["sdrStats"], 1, sdrRawCounts, <<>>))
               ELSE <<>>)]

---------------------------------------------------------------------------
(* Input universes *)

sJaneDoe == <<"J","a","n","e"," ","D","o","e">>
sJaneLower == <<"j","a","n","e"," ","d","o","e">>
sBob == <<"B","o","b">>
sJaneMail == <<"j","a","n","e","@","e","x",".","c","o","m">>
sBobMail == <<"b","o","b","@","x",".","i","o">>
sJaneMailVar == <<" ","J","a","n","e","@","E","X",".","c","o","m">>
sExUrl == <<"e","x",".","c","o","m">>
sExUrlVar == <<" ","E","X",".","c","o","m">>
sBioUrl == <<"b",".","i","o">>
sRowUrl == <<"r","o","w",".","i","o">>
sNoDate == <<"n","/","a">>
sThree == <<"3">>
sOne == <<"1">>

\* 09:14:00 as seconds of the day
BaseTod == 9 * 3600 + 14 * 60

\* all sequences over S of length 0..n
SeqsUpTo(S, n) == UNION {[1..k -> S] : k \in 0..n}

\* neither entry point is running
PipelineIdle ==
  /\ sdrConfigs = Null
  /\ contactsCsv = Null
  /\ run = Null
  /\ result = Null
  /\ validation = Null
  /\ previous = Null

---------------------------------------------------------------------------
(* SpecJoin: joinSendAndOpen applied to the rows of one batch *)

MaxJoinSends == 2
MaxJoinOpens == 2

\* raw send rows: two recipients; three send times 10 s apart at most, or no date
JoinSendDates == {IsoZ(7, 13, BaseTod + d) : d \in {0, 10, 11}} \cup {sNoDate}
JoinSendUniverse ==
  {[recipient_name |-> n, sent_date |-> d] : n \in {sJaneDoe, sBob}, d \in JoinSendDates}

\* raw open rows: the recipients as the tracker spells them, two open times
JoinOpenDates == {IsoZ(7, 13, BaseTod + d) : d \in {15, 30}}
JoinOpenUniverse ==
  {[recipient_name |-> n, sent_date |-> d, Views |-> sThree, Clicks |-> sOne] :
     n \in {sJaneLower, sBob}, d \in JoinOpenDates}

InitJoin ==
  /\ tz = 0
  /\ \E rawSend \in SeqsUpTo(JoinSendUniverse, MaxJoinSends),
        rawOpen \in SeqsUpTo(JoinOpenUniverse, MaxJoinOpens) :
       joinIn = [sendRows |-> rawSend, openRows |-> rawOpen]
  /\ pc = "raw"
  /\ phase1Result = Null
  /\ phase2Result = Null
  /\ joinOut = Null
  /\ contactsIn = Null
  /\ contactsOut = Null
  /\ PipelineIdle

\* the caller's preparation of the arguments: normalise, parse the dates
\* (send rows reach the join whatever their date is)
PrepareJoin ==
  /\ pc = "raw"
  /\ joinIn' = [sendRows |-> ParseDates(normalizeSend(joinIn.sendRows)),
                openRows |-> ValidDates(ParseDates(normalizeOpen(joinIn.openRows)))]
  /\ pc' = "join"
  /\ UNCHANGED <<phase1Result, phase2Result, joinOut, contactVars, tz, pipeVars, auxVars>>

\* const phase1Result = phase1Matching(sendRows, openRows)
Phase1 ==
  /\ pc = "join"
  /\ phase1Result' = phase1Matching(joinIn.sendRows, joinIn.openRows)
  /\ pc' = "phase1 done"
  /\ UNCHANGED <<joinIn, phase2Result, joinOut, contactVars, tz, pipeVars, auxVars>>

\* const phase2Result = phase2Matching(phase1Failed, openRows, usedOpenIndices)
Phase2 ==
  /\ pc = "phase1 done"
  /\ phase2Result' = phase2Matching(Phase1Failed(phase1Result), joinIn.openRows,
                                    phase1Result.usedIndices)
  /\ pc' = "phase2 done"
  /\ UNCHANGED <<joinIn, phase1Result, joinOut, contactVars, tz, pipeVars, auxVars>>

\* the left-join materialisation and the return of joinSendAndOpen
JoinReturn ==
  /\ pc = "phase2 done"
  /\ joinOut' = JoinResult(phase1Result, phase2Result)
  /\ pc' = "join done"
  /\ UNCHANGED <<joinIn, phase1Result, phase2Result, contactVars, tz, pipeVars, auxVars>>

NextJoin == PrepareJoin \/ Phase1 \/ Phase2 \/ JoinReturn

SpecJoin == InitJoin /\ [][NextJoin]_vars

---------------------------------------------------------------------------
(* SpecJoinOrder: joinSendAndOpen applied to the rows of one batch in which *)
(* sends compete for the same opens, for the comparison with the same rows  *)
(* given in another order                                                   *)

\* Bob's sends at 09:14:00, :10 and :11, and one send to Jane
OrderSendUniverse ==
  {[recipient_name |-> sBob, sent_date |-> IsoZ(7, 13, BaseTod + d)] : d \in {0, 10, 11}}
  \cup {[recipient_name |-> sJaneDoe, sent_date |-> IsoZ(7, 13, BaseTod + 10)]}

\* Bob's opens at 09:14:15 and :30, and one open by Jane
OrderOpenUniverse ==
  {[recipient_name |-> sBob, sent_date |-> IsoZ(7, 13, BaseTod + d),
    Views |-> sThree, Clicks |-> sOne] : d \in {15, 30}}
  \cup {[recipient_name |-> sJaneLower, sent_date |-> IsoZ(7, 13, BaseTod + 15),
         Views |-> sOne, Clicks |-> sOne]}

InitJoinOrder ==
  /\ tz = 0
  /\ \E rawSend \in SeqsUpTo(OrderSendUniverse, MaxJoinSends),
        rawOpen \in SeqsUpTo(OrderOpenUniverse, MaxJoinOpens) :
       joinIn = [sendRows |-> rawSend, openRows |-> rawOpen]
  /\ pc = "raw"
  /\ phase1Result = Null
  /\ phase2Result = Null
  /\ joinOut = Null
  /\ contactsIn = Null
  /\ contactsOut = Null
  /\ PipelineIdle

SpecJoinOrder == InitJoinOrder /\ [][NextJoin]_vars

---------------------------------------------------------------------------
(* SpecContacts: joinWithContacts applied to joined rows and a directory *)

MaxContactRows == 3
MaxContacts == 2

\* joined rows: Jane as the directory spells her and in another spelling, Bob,
\* a row without e-mail, and a Jane row that brings its own Company URL
ContactRowUniverse ==
  {("Recipient Email" :> e) @@ ("Views" :> Null) :
     e \in {sJaneMail, sJaneMailVar, sBobMail, EmptyStr}}
  \cup {("Recipient Email" :> sJaneMail) @@ ("Views" :> Null) @@ ("Company URL" :> sRowUrl)}

\* directory rows as parsed: Jane twice (the second spelling is a duplicate
\* after normalisation), Bob with three URLs, an entry without e-mail
ContactUniverse ==
  {("Email" :> sJaneMail) @@ ("Company URL" :> sExUrl),
   ("Email" :> sJaneMail) @@ ("Title" :> sBob),
   ("Email" :> sJaneMailVar) @@ ("Company URL" :> sBioUrl),
   ("Email" :> sBobMail) @@ ("Company URL" :> sExUrlVar),
   ("Email" :> sBobMail) @@ ("Company URL" :> sBioUrl),
   ("Email" :> sBobMail) @@ ("Company URL" :> EmptyStr),
   ("Email" :> EmptyStr) @@ ("Company URL" :> sExUrl)}

JoinIdle ==
  /\ joinIn = Null
  /\ phase1Result = Null
  /\ phase2Result = Null
  /\ joinOut = Null

InitContacts ==
  /\ tz = 0
  /\ JoinIdle
  /\ \E rows \in SeqsUpTo(ContactRowUniverse, MaxContactRows),
        contacts \in SeqsUpTo(ContactUniverse, MaxContacts) :
       contactsIn = [rows |-> rows, contacts |-> contacts]
  /\ contactsOut = Null
  /\ PipelineIdle
  /\ pc = "contacts raw"

\* const contactsNorm = normalizeContacts(contactsRows)
PrepareContacts ==
  /\ pc = "contacts raw"
  /\ contactsIn' = [contactsIn EXCEPT !.contacts = normalizeContacts(@)]
  /\ pc' = "contacts"
  /\ UNCHANGED <<joinVars, contactsOut, tz, pipeVars, auxVars>>

\* joinWithContacts(sendOpenRows, contactsNorm)
JoinContacts ==
  /\ pc = "contacts"
  /\ contactsOut' = joinWithContacts(contactsIn.rows, contactsIn.contacts)
  /\ pc' = "contacts done"
  /\ UNCHANGED <<joinVars, contactsIn, tz, pipeVars, auxVars>>

NextContacts == PrepareContacts \/ JoinContacts

SpecContacts == InitContacts /\ [][NextContacts]_vars

---------------------------------------------------------------------------
(* Spec: processMultiSdrPipeline and processEmailPipeline on parsed files *)

MaxBatches == 2

sAna == <<"A","n","a">>
sZed == <<"Z","e","d">>
sXio == <<"x",".","i","o">>
sMixedLoopwork ==
  <<"m","a","i","l",".","L","o","o","p","W","o","r","k",".","c","o">>

\* a row of a send file whose domain column is headed `domainKey`
SendRowOf(name, date, email, domainKey, domain) ==
  ("recipient_name" :> name) @@ ("sent_date" :> date)
    @@ ("Recipient Email" :> email) @@ (domainKey :> domain)

\* Jane on 3 July 09:14:21Z; the same send without a date; Bob on 13 July;
\* a send to an internal address
Jane(domainKey) ==
  SendRowOf(sJaneDoe, IsoZ(7, 3, BaseTod + 21), sJaneMail, domainKey, sExUrl)
JaneNoDate(domainKey) ==
  SendRowOf(sJaneDoe, sNoDate, sJaneMail, domainKey, sExUrl)
Bob(domainKey) ==
  SendRowOf(sBob, IsoZ(7, 13, BaseTod + 21), sBobMail, domainKey, sXio)
Internal(domainKey) ==
  SendRowOf(sJaneDoe, IsoZ(7, 3, BaseTod + 21), sJaneMail, domainKey, sMixedLoopwork)

\* send files: empty, one row, a dated row with an undated one, a file with
\* both a Domain and a `domain` column (the internal address in one of them),
\* and a file with a `domain` column only
SendFiles ==
  {<<>>,
   <<Jane("Domain")>>,
   <<JaneNoDate("Domain")>>,
   <<Jane("Domain"), JaneNoDate("Domain")>>,
   <<With(Internal("Domain"), "domain", sExUrl),
     With(Jane("Domain"), "domain", sMixedLoopwork)>>,
   <<Internal("domain"), Bob("domain")>>}

\* open files: Jane's open four seconds after her send, alone or with Bob's
JaneOpen ==
  [recipient_name |-> sJaneDoe, sent_date |-> IsoZ(7, 3, BaseTod + 25),
   Views |-> sThree, Clicks |-> sOne]
BobOpen ==
  [recipient_name |-> sBob, sent_date |-> IsoZ(7, 13, BaseTod + 25),
   Views |-> sThree, Clicks |-> sOne]
OpenFiles == {<<JaneOpen>>, <<JaneOpen, BobOpen>>}

\* contacts files: empty, Jane, Jane and a Bob whose record has an SDR_Name
JaneContact == ("Email" :> sJaneMail) @@ ("Company URL" :> sExUrl)
BobContact ==
  ("Email" :> sBobMail) @@ ("Company URL" :> sBioUrl) @@ ("SDR_Name" :> sZed)
ContactFiles == {<<>>, <<JaneContact>>, <<JaneContact, BobContact>>}

BatchNames == {EmptyStr, sAna}

\* every row of the send file of batch b carries its row id in a column the
\* pipeline passes through
WithRef(rows, b) ==
  [k \in 1..Len(rows) |-> With(rows[k], "Ref", <<"<ref>", b, k>>)]

Init ==
  /\ tz = 0
  /\ JoinIdle
  /\ contactsIn = Null
  /\ contactsOut = Null
  /\ \E n \in 0..MaxBatches :
       \E names \in [1..n -> BatchNames], sends \in [1..n -> SendFiles],
          opens \in [1..n -> OpenFiles] :
         sdrConfigs = [b \in 1..n |-> [name |-> names[b],
                                       sendCsv |-> WithRef(sends[b], b),
                                       openCsv |-> opens[b]]]
  /\ contactsCsv \in ContactFiles
  /\ run = Null
  /\ result = Null
  /\ validation = Null
  /\ previous = Null
  /\ pc = "start"

\* what a call that has ended leaves behind: its locals, or its outcome
Earlier(value) == <<"<earlier>", value>>
IsEarlier(v) == v[1] = "<earlier>"

\* Mutant of InitialRun: the accumulators are declared outside the function
\* and still hold what an earlier call left in them.
InitialRunKeepsEarlier(contactsNorm, earlier) ==
  IF IsEarlier(earlier)
  THEN [earlier[2] EXCEPT !.contactsNorm = contactsNorm, !.next = 1]
  ELSE [contactsNorm |-> contactsNorm, allSendOpenSuccess |-> <<>>,
        allSendOpenFailures |-> <<>>, sdrStats |-> <<>>,
        totalSendRecords |-> 0, totalOpenRecords |-> 0, next |-> 1]

\* the locals of processMultiSdrPipeline when the loop starts; `earlier` is
\* what an earlier call's locals held (Null before the first call), of which
\* nothing is kept (const allSendOpenSuccess = [] ... let totalOpenRecords = 0)
InitialRun(contactsNorm, earlier) ==
  [contactsNorm |-> contactsNorm,
   allSendOpenSuccess |-> <<>>,
   allSendOpenFailures |-> <<>>,
   sdrStats |-> <<>>,
   totalSendRecords |-> 0,
   totalOpenRecords |-> 0,
   next |-> 1]

\* processMultiSdrPipeline up to the loop: the configuration check, the
\* contacts file, the accumulators
StartMulti ==
  /\ pc = "start"
  /\ LET contactsNorm == normalizeContacts(contactsCsv)
         check == validateRequired(contactsNorm, ContactRequired)
     IN  IF Len(sdrConfigs) = 0
         THEN /\ result' = Thrown("", "At least one SDR configuration is required", {})
              /\ pc' = "multi thrown"
              /\ run' = run
         ELSE IF check.error # "none"
         THEN /\ result' = Thrown("Contacts CSV", check.error, check.missing)
              /\ pc' = "multi thrown"
              /\ run' = run
         ELSE /\ run' = InitialRun(contactsNorm, run)
              /\ pc' = "multi loop"
              /\ result' = result
  /\ UNCHANGED <<joinVars, contactVars, tz, auxVars, sdrConfigs, contactsCsv>>

\* Mutant of OpenRowsOf: the open rows are collected in a list that outlives
\* the iteration, so a batch also sees the opens of the batches before it.
RECURSIVE OpenRowsOfEarlierToo(_, _)
OpenRowsOfEarlierToo(configs, i) ==
  IF i = 0 THEN <<>>
  ELSE OpenRowsOfEarlierToo(configs, i - 1) \o configs[i].openCsv

\* const openRows = await loadCsv(config.openCsv): the rows of batch i's own
\* open file
OpenRowsOf(configs, i) == configs[i].openCsv

\* one iteration of `for (const config of sdrConfigs)`
ProcessSdr ==
  /\ pc = "multi loop"
  /\ run.next <= Len(sdrConfigs)
  /\ LET config == sdrConfigs[run.next]
         label == JsOr(config.name, sSDR)
         sendNorm == normalizeSend(config.sendCsv)
         openNorm == normalizeOpen(OpenRowsOf(sdrConfigs, run.next))
         sendCheck == validateRequired(sendNorm, SendRequired)
         openCheck == validateRequired(openNorm, OpenRequired)
         so == JoinValid(sendNorm, openNorm)
         sendOpenSuccess == TagRows(so.sendOpenSuccess, label)
         sendOpenFailures == TagRows(so.sendOpenFailures, label)
     IN  IF sendCheck.error # "none"
         THEN /\ result' = Thrown(<<label, "Send CSV">>, sendCheck.error,
                                 sendCheck.missing)
              /\ pc' = "multi thrown"
              /\ run' = run
         ELSE IF openCheck.error # "none"
         THEN /\ result' = Thrown(<<label, "Open CSV">>, openCheck.error,
                                 openCheck.missing)
              /\ pc' = "multi thrown"
              /\ run' = run
         ELSE /\ run' = [run EXCEPT
                           !.totalSendRecords = @ + Len(sendNorm),
                           !.totalOpenRecords = @ + Len(openNorm),
                           !.allSendOpenSuccess = @ \o sendOpenSuccess,
                           !.allSendOpenFailures = @ \o sendOpenFailures,
                           !.sdrStats = Append(@, SdrStat(label, sendNorm,
                                                          sendOpenSuccess,
                                                          sendOpenFailures)),
                           !.next = @ + 1]
              /\ pc' = pc
              /\ result' = result
  /\ UNCHANGED <<joinVars, contactVars, tz, auxVars, sdrConfigs, contactsCsv>>

\* processMultiSdrPipeline after the loop
FinishMulti ==
  /\ pc = "multi loop"
  /\ run.next > Len(sdrConfigs)
  /\ IF Len(run.allSendOpenSuccess) = 0
     THEN /\ result' = Thrown("", "No SDR send-open joins were successful", {})
          /\ pc' = "multi thrown"
     ELSE LET joined == joinWithContacts(run.allSendOpenSuccess, run.contactsNorm)
          IN  /\ result' =
                   [status |-> "returned",
                    successful |-> joined.successful,
                    failed |-> run.allSendOpenFailures \o joined.contactFailures,
                    stats |-> Stats(run.totalSendRecords, run.totalOpenRecords,
                                    run.contactsNorm, run.allSendOpenSuccess,
                                    run.allSendOpenFailures, joined),
                    sdrStats |-> run.sdrStats]
              /\ pc' = "multi returned"
  /\ UNCHANGED <<joinVars, contactVars, tz, auxVars, sdrConfigs, contactsCsv, run>>

\* processEmailPipeline, called with the files of a single pair
EmailPipeline ==
  /\ pc = "start"
  /\ Len(sdrConfigs) = 1
  /\ result' = processEmailPipeline(sdrConfigs[1].sendCsv, sdrConfigs[1].openCsv,
                                    contactsCsv)
  /\ pc' = IF result'.status = "returned" THEN "single returned" ELSE "single thrown"
  /\ UNCHANGED <<joinVars, contactVars, tz, auxVars, sdrConfigs, contactsCsv, run>>

Next == StartMulti \/ ProcessSdr \/ FinishMulti \/ EmailPipeline

Spec == Init /\ [][Next]_vars

---------------------------------------------------------------------------
(* SpecOpenFile: the entry points on one batch whose open file varies in   *)
(* its columns and in the text of its Views/Opens/Clicks cells.            *)

MaxOpenFileRows == 1

sMinusThree == <<"-","3">>
sTwoPointFive == <<"2",".","5">>

\* what a Views, Opens or Clicks cell of the file holds
OpenCells == {sThree, EmptyStr, sMinusThree, sTwoPointFive, sNoDate}

\* the count columns a file's header line may have
OpenHeaders == SUBSET {"Views", "Opens", "Clicks"}

\* an open of Bob's send of 13 July, with the count columns of `cells`
OpenRowOf(cells) ==
  [k \in {"recipient_name", "sent_date"} \cup DOMAIN cells |->
     IF k = "recipient_name" THEN sBob
     ELSE IF k = "sent_date" THEN IsoZ(7, 13, BaseTod + 25)
     ELSE cells[k]]

InitOpenFile ==
  /\ tz = 0
  /\ JoinIdle
  /\ contactsIn = Null
  /\ contactsOut = Null
  /\ \E name \in BatchNames, header \in OpenHeaders, n \in 0..MaxOpenFileRows :
       \E cells \in [1..n -> [header -> OpenCells]] :
         sdrConfigs = << [name |-> name,
                          sendCsv |-> WithRef(<<Bob("Domain")>>, 1),
                          openCsv |-> [k \in 1..n |-> OpenRowOf(cells[k])]] >>
  /\ contactsCsv = <<JaneContact, BobContact>>
  /\ run = Null
  /\ result = Null
  /\ validation = Null
  /\ previous = Null
  /\ pc = "start"

SpecOpenFile == InitOpenFile /\ [][Next]_vars

---------------------------------------------------------------------------
(* SpecAlias: the entry points on one batch in which one of the three      *)
(* files names its fields by the canonical column, by the accepted alias,  *)
(* or by both, with cells that are filled or empty.                        *)

\* the alias columns the normalisers read, each with its canonical column
SendAliases ==
  {<<"Recipient Name", "recipient_name">>, <<"Date", "sent_date">>,
   <<"recipient_email", "Recipient Email">>}
OpenAliases ==
  {<<"Recipient", "recipient_name">>, <<"Sent", "sent_date">>,
   <<"Opens", "Views">>, <<"Last Opened", "last_opened">>}
ContactAliases == {<<"email", "Email">>}

\* the cells of one field of a row: the canonical column, the alias, the
\* alias with an empty cell, or both columns (the canonical cell empty or
\* filled, the alias cell holding another value)
FieldCells(canon, alias, value, other) ==
  {canon :> value, alias :> value, alias :> EmptyStr,
   (canon :> EmptyStr) @@ (alias :> other), (canon :> value) @@ (alias :> other)}

AliasSendRows ==
  {name @@ date @@ email @@ ("Domain" :> sXio) :
     name \in FieldCells("recipient_name", "Recipient Name", sBob, sJaneDoe),
     date \in FieldCells("sent_date", "Date", IsoZ(7, 13, BaseTod + 21),
                         IsoZ(7, 14, BaseTod + 21)),
     email \in FieldCells("Recipient Email", "recipient_email", sBobMail, sJaneMail)}

AliasOpenRows ==
  {name @@ date @@ views @@ last @@ ("Clicks" :> sOne) :
     name \in FieldCells("recipient_name", "Recipient", sBob, sJaneDoe),
     date \in FieldCells("sent_date", "Sent", IsoZ(7, 13, BaseTod + 25),
                         IsoZ(7, 14, BaseTod + 25)),
     views \in FieldCells("Views", "Opens", sThree, sOne),
     last \in FieldCells("last_opened", "Last Opened", IsoZ(7, 13, BaseTod + 40),
                         IsoZ(7, 14, BaseTod + 40))}

AliasContactRows ==
  {mail @@ ("Company URL" :> sBioUrl) :
     mail \in FieldCells("Email", "email", sBobMail, sJaneMail)}

\* the three files of the batch: one of them is drawn from the rows above,
\* the other two are the plain files of Bob
AliasFiles ==
  {[send |-> <<row>>, open |-> <<BobOpen>>, contacts |-> <<BobContact>>] :
     row \in AliasSendRows}
  \cup {[send |-> <<Bob("Domain")>>, open |-> <<row>>, contacts |-> <<BobContact>>] :
          row \in AliasOpenRows}
  \cup {[send |-> <<Bob("Domain")>>, open |-> <<BobOpen>>, contacts |-> <<row>>] :
          row \in AliasContactRows}

InitAlias ==
  /\ tz = 0
  /\ JoinIdle
  /\ contactsIn = Null
  /\ contactsOut = Null
  /\ \E files \in AliasFiles :
       /\ sdrConfigs = << [name |-> sAna,
                           sendCsv |-> WithRef(files.send, 1),
                           openCsv |-> files.open] >>
       /\ contactsCsv = files.contacts
  /\ run = Null
  /\ result = Null
  /\ validation = Null
  /\ previous = Null
  /\ pc = "start"

SpecAlias == InitAlias /\ [][Next]_vars

---------------------------------------------------------------------------
(* SpecChecked: processMultiSdrPipeline followed, when it returns, by the  *)
(* page's call of runDataValidation on its output and the same batch list. *)

\* handleProcess: const processedData = { successful, failed, stats, sdrStats }
ProcessedData(res) ==
  [successful |-> res.successful, failed |-> res.failed,
   stats |-> res.stats, sdrStats |-> res.sdrStats]

\* runDataValidation(emailData, sdrConfigs): the report, without its
\* timestamp and status text
runDataValidation(emailData, configs) ==
  LET basicValidation == validateSdrSendData(emailData)
      compared == Len(configs) > 0
      comparison == compareRawVsProcessed(configs, emailData)
  IN  [overallPassed |-> basicValidation.passed /\ (compared => comparison.passed),
       checks |-> IF compared
                  THEN [basicValidation |-> basicValidation,
                        rawVsProcessed |-> comparison]
                  ELSE [basicValidation |-> basicValidation],
       summary |->
         [totalErrors |-> Len(basicValidation.errors)
                            + (IF compared THEN Len(comparison.errors) ELSE 0),
          totalWarnings |-> Len(basicValidation.warnings)
                              + (IF compared THEN Len(comparison.warnings) ELSE 0)]]

\* const validation = await runDataValidation(processedData, sdrPayload)
RunDataValidation ==
  /\ pc = "multi returned"
  /\ validation' = runDataValidation(ProcessedData(result), sdrConfigs)
  /\ pc' = "checked"
  /\ UNCHANGED <<joinVars, contactVars, tz, pipeVars, previous>>

NextChecked == StartMulti \/ ProcessSdr \/ FinishMulti \/ RunDataValidation

SpecChecked == Init /\ [][NextChecked]_vars

---------------------------------------------------------------------------
(* Header pre-validation (utils/csvValidation.js) and SpecHeaders: the     *)
(* page validates the header line of each file, then calls                 *)
(* processMultiSdrPipeline.                                                *)

\* the characters of the column names that occur in the files
HeaderText ==
  ("recipient_name" :> <<"r","e","c","i","p","i","e","n","t","_","n","a","m","e">>) @@
  ("Recipient Name" :> <<"R","e","c","i","p","i","e","n","t"," ","N","a","m","e">>) @@
  ("RECIPIENT_NAME" :> <<"R","E","C","I","P","I","E","N","T","_","N","A","M","E">>) @@
  ("sent_date" :> <<"s","e","n","t","_","d","a","t","e">>) @@
  ("Date" :> <<"D","a","t","e">>) @@
  ("Sent" :> <<"S","e","n","t">>) @@
  ("Recipient Email" :> <<"R","e","c","i","p","i","e","n","t"," ","E","m","a","i","l">>) @@
  ("recipient_email" :> <<"r","e","c","i","p","i","e","n","t","_","e","m","a","i","l">>) @@
  ("RecipientEmail" :> <<"R","e","c","i","p","i","e","n","t","E","m","a","i","l">>) @@
  ("Recipient" :> <<"R","e","c","i","p","i","e","n","t">>) @@
  ("Views" :> <<"V","i","e","w","s">>) @@
  ("Opens" :> <<"O","p","e","n","s">>) @@
  ("Clicks" :> <<"C","l","i","c","k","s">>) @@
  ("clicks" :> <<"c","l","i","c","k","s">>) @@
  ("Email" :> <<"E","m","a","i","l">>) @@
  ("email" :> <<"e","m","a","i","l">>) @@
  ("EMAIL" :> <<"E","M","A","I","L">>) @@
  ("Domain" :> <<"D","o","m","a","i","n">>) @@
  ("Company URL" :> <<"C","o","m","p","a","n","y"," ","U","R","L">>) @@
  ("last_opened" :> <<"l","a","s","t","_","o","p","e","n","e","d">>) @@
  ("Last Opened" :> <<"L","a","s","t"," ","O","p","e","n","e","d">>) @@
  ("SDR_Name" :> <<"S","D","R","_","N","a","m","e">>)

\* normalizeHeader(value): value.trim().toLowerCase()
normalizeHeader(name) == toLowerCase(trim(HeaderText[name]))

sendSchema ==
  {[canonical |-> "recipient_name", aliases |-> {"recipient_name", "Recipient Name"}],
   [canonical |-> "sent_date", aliases |-> {"sent_date", "Date", "Sent"}],
   [canonical |-> "Recipient Email",
    aliases |-> {"Recipient Email", "recipient_email", "RecipientEmail"}]}

openSchema ==
  {[canonical |-> "recipient_name", aliases |-> {"recipient_name", "Recipient"}],
   [canonical |-> "sent_date", aliases |-> {"sent_date", "Sent", "Date"}],
   [canonical |-> "Views", aliases |-> {"Views", "Opens"}],
   [canonical |-> "Clicks", aliases |-> {"Clicks"}]}

contactSchema ==
  {[canonical |-> "Email", aliases |-> {"Email", "email", "Recipient Email"}]}

\* extractHeaders(csvText): the fields of the header line, which are the
\* keys of the file's rows
extractHeaders(file) == DOMAIN file[1]

\* ensureHeaders(headers, schema, label): the canonical names it reports
\* missing ({} when it does not throw)
ensureHeaders(headers, schema) ==
  LET normalizedHeaders == {normalizeHeader(h) : h \in headers}
  IN  {req.canonical : req \in
         {r \in schema : ~\E alias \in r.aliases :
                            normalizeHeader(alias) \in normalizedHeaders}}

\* a row whose cells are all filled, with the given column for each field
\* ("" for a field the file has no column for)
HeaderRow(columns, cells) ==
  [k \in {columns[i] : i \in DOMAIN columns} \ {""} |->
     cells[CHOOSE i \in DOMAIN columns : columns[i] = k]]

HeaderSendRows ==
  {HeaderRow(<<name, date, email, "Domain">>,
             <<sBob, IsoZ(7, 13, BaseTod + 21), sBobMail, sXio>>) :
     name \in {"recipient_name", "Recipient Name", "RECIPIENT_NAME", ""},
     date \in {"sent_date", "Date", "Sent", ""},
     email \in {"Recipient Email", "recipient_email", "RecipientEmail", ""}}

HeaderOpenRows ==
  {HeaderRow(<<name, date, views, clicks>>,
             <<sBob, IsoZ(7, 13, BaseTod + 25), sThree, sOne>>) :
     name \in {"recipient_name", "Recipient"},
     date \in {"sent_date", "Sent", "Date"},
     views \in {"Views", "Opens", ""},
     clicks \in {"Clicks", "clicks"}}

HeaderContactRows ==
  {HeaderRow(<<mail, "Company URL">>, <<sBobMail, sBioUrl>>) :
     mail \in {"Email", "email", "EMAIL", "Recipient Email", ""}}

HeaderFiles ==
  {[send |-> <<row>>, open |-> <<BobOpen>>, contacts |-> <<BobContact>>] :
     row \in HeaderSendRows}
  \cup {[send |-> <<Bob("Domain")>>, open |-> <<row>>, contacts |-> <<BobContact>>] :
          row \in HeaderOpenRows}
  \cup {[send |-> <<Bob("Domain")>>, open |-> <<BobOpen>>, contacts |-> <<row>>] :
          row \in HeaderContactRows}

InitHeaders ==
  /\ tz = 0
  /\ JoinIdle
  /\ contactsIn = Null
  /\ contactsOut = Null
  /\ \E files \in HeaderFiles :
       /\ sdrConfigs = << [name |-> sAna, sendCsv |-> files.send,
                           openCsv |-> files.open] >>
       /\ contactsCsv = files.contacts
  /\ run = Null
  /\ result = Null
  /\ validation = Null
  /\ previous = Null
  /\ pc = "page"

\* handleProcess up to the call of the pipeline: validateSendHeaders and
\* validateOpenHeaders for every batch, then validateContactsHeaders
ValidateHeaders ==
  /\ pc = "page"
  /\ LET refusedBatches ==
           {b \in DOMAIN sdrConfigs :
              ensureHeaders(extractHeaders(sdrConfigs[b].sendCsv), sendSchema)
                \cup ensureHeaders(extractHeaders(sdrConfigs[b].openCsv), openSchema)
                # {}}
         contactsMissing == ensureHeaders(extractHeaders(contactsCsv), contactSchema)
     IN  IF refusedBatches # {}
         THEN LET b == CHOOSE x \in refusedBatches : \A y \in refusedBatches : x <= y
                  sendMissing ==
                    ensureHeaders(extractHeaders(sdrConfigs[b].sendCsv), sendSchema)
              IN  /\ result' =
                       IF sendMissing # {}
                       THEN Thrown("Send CSV", "missing required columns", sendMissing)
                       ELSE Thrown("Open CSV", "missing required columns",
                                   ensureHeaders(extractHeaders(sdrConfigs[b].openCsv),
                                                 openSchema))
                  /\ pc' = "headers refused"
         ELSE IF contactsMissing # {}
         THEN /\ result' = Thrown("Contacts CSV", "missing required columns",
                                  contactsMissing)
              /\ pc' = "headers refused"
         ELSE /\ result' = result
              /\ pc' = "start"
  /\ UNCHANGED <<joinVars, contactVars, tz, auxVars, sdrConfigs, contactsCsv, run>>

NextHeaders == ValidateHeaders \/ StartMulti \/ ProcessSdr \/ FinishMulti

SpecHeaders == InitHeaders /\ [][NextHeaders]_vars

---------------------------------------------------------------------------
(* SpecTwice: processMultiSdrPipeline called a second time with the        *)
(* arguments of the first call.                                            *)

MaxRepeatBatches == 2

RepeatSendFiles == {<<Jane("Domain")>>, <<Internal("domain"), Bob("domain")>>}
RepeatContactFiles == {<<>>, <<JaneContact, BobContact>>}

InitTwice ==
  /\ tz = 0
  /\ JoinIdle
  /\ contactsIn = Null
  /\ contactsOut = Null
  /\ \E n \in 1..MaxRepeatBatches :
       \E names \in [1..n -> BatchNames], sends \in [1..n -> RepeatSendFiles],
          opens \in [1..n -> OpenFiles] :
         sdrConfigs = [b \in 1..n |-> [name |-> names[b],
                                       sendCsv |-> WithRef(sends[b], b),
                                       openCsv |-> opens[b]]]
  /\ contactsCsv \in RepeatContactFiles
  /\ run = Null
  /\ result = Null
  /\ validation = Null
  /\ previous = Null
  /\ pc = "start"

\* the caller keeps the first call's outcome and calls again with the same
\* arguments
CallAgain ==
  /\ pc \in {"multi returned", "multi thrown"}
  /\ ~IsEarlier(previous)
  /\ previous' = Earlier(result)
  /\ run' = Earlier(run)
  /\ result' = Null
  /\ pc' = "start"
  /\ UNCHANGED <<joinVars, contactVars, tz, validation, sdrConfigs, contactsCsv>>

NextTwice == StartMulti \/ ProcessSdr \/ FinishMulti \/ CallAgain

SpecTwice == InitTwice /\ [][NextTwice]_vars

---------------------------------------------------------------------------
(* SpecValidate: validateSdrSendData applied to hand-built emailData *)

MaxCheckedRows == 2
MaxStatValue == 2
MaxStatBatches == 2

\* rows of `successful`: a complete row, a row without any e-mail and with
\* no view, a row that has the contact's Email only and an empty Views
CheckedRowUniverse ==
  {("Recipient Email" :> sJaneMail) @@ ("Views" :> Num(3)) @@ ("SDR_Name" :> sAna),
   ("Recipient Email" :> EmptyStr) @@ ("Views" :> Num(0)),
   ("Email" :> sJaneMail) @@ ("Views" :> EmptyStr)}

\* stats objects: the failure count under the key the checker reads or under
\* the key the pipeline writes
CheckedStatsUniverse ==
  {[total_send_records |-> t, send_open_success |-> s] @@ (key :> f) :
     t \in 0..MaxStatValue, s \in 0..MaxStatValue,
     key \in {"send_open_failed", "send_open_failures"}, f \in 0..1}

CheckedSdrStatUniverse ==
  {[name |-> sAna, total_send_records |-> t, matched |-> m, failures |-> f] :
     t \in 0..1, m \in 0..1, f \in 0..1}

\* emailData: with or without stats and sdrStats, or without `successful`
EmailDataUniverse ==
  {<<>>}
  \cup
  {("successful" :> rows) @@ ("failed" :> failed) @@ stats @@ sdrStats :
     rows \in SeqsUpTo(CheckedRowUniverse, MaxCheckedRows),
     failed \in SeqsUpTo({("Recipient Email" :> sBobMail)}, 1),
     stats \in {<<>>} \cup {("stats" :> st) : st \in CheckedStatsUniverse},
     sdrStats \in {<<>>} \cup {("sdrStats" :> seq) :
                                 seq \in SeqsUpTo(CheckedSdrStatUniverse, MaxStatBatches)}}

InitValidate ==
  /\ tz = 0
  /\ JoinIdle
  /\ contactsIn = Null
  /\ contactsOut = Null
  /\ sdrConfigs = <<>>
  /\ contactsCsv = Null
  /\ run = Null
  /\ result \in EmailDataUniverse
  /\ validation = Null
  /\ previous = Null
  /\ pc = "validate"

\* const results = await validateSdrSendData(emailData, sdrConfigs)
ValidateSdrSendData ==
  /\ pc = "validate"
  /\ validation' = validateSdrSendData(result)
  /\ pc' = "validated"
  /\ UNCHANGED <<joinVars, contactVars, tz, pipeVars, previous>>

NextValidate == ValidateSdrSendData

SpecValidate == InitValidate /\ [][NextValidate]_vars

---------------------------------------------------------------------------
(* SpecCompare: compareRawVsProcessed applied to a batch list and to        *)
(* emailData whose sdrStats has one entry per batch, in the batch order     *)

MaxComparedBatches == 2
MaxRawRows == 2

\* a batch with its send file and the entry sdrStats reports for it: the
\* entry's name is the label the pipeline gives the batch
ComparedBatchUniverse ==
  {[config |-> [name |-> name, sendCsv |-> sendRows, openCsv |-> <<JaneOpen>>],
    stat |-> [name |-> JsOr(name, sSDR), total_send_records |-> total,
              matched |-> total, failures |-> 0]] :
     name \in BatchNames,
     sendRows \in SeqsUpTo({Jane("Domain")}, MaxRawRows),
     total \in 0..MaxRawRows}

InitCompare ==
  /\ tz = 0
  /\ JoinIdle
  /\ contactsIn = Null
  /\ contactsOut = Null
  /\ contactsCsv = Null
  /\ run = Null
  /\ \E batches \in SeqsUpTo(ComparedBatchUniverse, MaxComparedBatches),
        rows \in SeqsUpTo({("Recipient Email" :> sJaneMail)}, MaxRawRows),
        total \in 0..MaxRawRows,
        withSdrStats \in BOOLEAN :
       /\ sdrConfigs = [i \in 1..Len(batches) |-> batches[i].config]
       /\ result =
            ("successful" :> rows) @@ ("failed" :> <<>>)
              @@ ("stats" :> [total_send_records |-> total])
              @@ (IF withSdrStats
                  THEN ("sdrStats" :> [i \in 1..Len(batches) |-> batches[i].stat])
                  ELSE <<>>)
  /\ validation = Null
  /\ previous = Null
  /\ pc = "compare"

\* const comparison = await compareRawVsProcessed(sdrConfigs, emailData)
CompareRawVsProcessed ==
  /\ pc = "compare"
  /\ validation' = compareRawVsProcessed(sdrConfigs, result)
  /\ pc' = "compared"
  /\ UNCHANGED <<joinVars, contactVars, tz, pipeVars, previous>>

NextCompare == CompareRawVsProcessed

SpecCompare == InitCompare /\ [][NextCompare]_vars

---------------------------------------------------------------------------
(* DataProcessor._incrementalDatetimeJoin: the send-open join of the       *)
(* DataProcessor class, on rows whose sent_date _cleanData has parsed to a  *)
(* Date (or to null).                                                      *)

DpLastIncrement == 60   \* for (let increment = 0; increment <= 60; increment++)

\* String(row.recipient_name || "").trim().toLowerCase()
DpEmail(row) == toLowerCase(trim(JsOr(Get(row, "recipient_name"), EmptyStr)))

\* openByEmail.get(email) || []  (rows without a recipient are not indexed)
DpOpensOf(openDf, email) ==
  SelectSeq(openDf, LAMBDA row : DpEmail(row) # EmptyStr /\ DpEmail(row) = email)

\* new Date(v) for what sent_date holds after _cleanData: a Date is copied,
\* null is the epoch
DpNewDate(v) == IF v = Null THEN DateOf(0) ELSE v

\* Object.keys(openDf[0] || {}).filter(k => !["recipient_name","sent_date"].includes(k))
DpOpenFields(openDf) ==
  IF Len(openDf) = 0 THEN {} ELSE (DOMAIN openDf[1]) \ {"recipient_name", "sent_date"}

\* rowWithNulls: the send row with every open field set to null
DpRowWithNulls(sendRow, openDf) ==
  [k \in (DOMAIN sendRow) \cup DpOpenFields(openDf) |->
     IF k \in DpOpenFields(openDf) THEN Null ELSE sendRow[k]]

\* opens.filter(o => openTime equals searchTime to the second)
DpMatchesAt(opens, sendDate, increment) ==
  SelectSeq(opens,
            LAMBDA o : /\ IsDate(DpNewDate(Get(o, "sent_date")))
                       /\ getTime(DpNewDate(Get(o, "sent_date")))
                            = getTime(sendDate) + increment)

\* the increment loop: the row pushed at the first increment with a match
\* (one match and several matches both push { ...sendRow, ...matches[0] }),
\* or the null-filled row when no increment has one
RECURSIVE DpScan(_, _, _, _, _)
DpScan(sendRow, opens, openDf, sendDate, increment) ==
  IF increment > DpLastIncrement THEN DpRowWithNulls(sendRow, openDf)
  ELSE LET matches == DpMatchesAt(opens, sendDate, increment)
       IN  IF Len(matches) = 1 THEN Spread(sendRow, matches[1])
           ELSE IF Len(matches) > 1 THEN Spread(sendRow, matches[1])
           ELSE DpScan(sendRow, opens, openDf, sendDate, increment + 1)

\* body of sendDf.forEach; acc = [successful, failed]
DpStep(acc, sendRow, openDf) ==
  LET email == DpEmail(sendRow)
      opens == DpOpensOf(openDf, email)
      sendDate == DpNewDate(Get(sendRow, "sent_date"))
  IN  IF email = EmptyStr
      THEN [acc EXCEPT !.failed =
              Append(@, With(sendRow, "failure_reason", Reason("empty_recipient_name")))]
      ELSE IF Len(opens) = 0
      THEN [acc EXCEPT !.successful = Append(@, DpRowWithNulls(sendRow, openDf))]
      ELSE IF ~IsDate(sendDate)
      THEN [acc EXCEPT !.successful = Append(@, DpRowWithNulls(sendRow, openDf))]
      ELSE [acc EXCEPT !.successful =
              Append(@, DpScan(sendRow, opens, openDf, sendDate, 0))]

RECURSIVE DpLoop(_, _, _, _)
DpLoop(sendDf, openDf, i, acc) ==
  IF i > Len(sendDf) THEN acc
  ELSE DpLoop(sendDf, openDf, i + 1, DpStep(acc, sendDf[i], openDf))

incrementalDatetimeJoin(sendDf, openDf) ==
  DpLoop(sendDf, openDf, 1, [successful |-> <<>>, failed |-> <<>>])

---------------------------------------------------------------------------
(* SpecDataProcessor: _incrementalDatetimeJoin applied to cleaned rows *)

MaxDpSends == 2
MaxDpOpens == 2

\* cleaned send rows: a recipient or none, two send times or no date
DpSendUniverse ==
  {[recipient_name |-> n, sent_date |-> d] :
     n \in {sJaneDoe, sBob, EmptyStr},
     d \in {DateOf(BaseTod), DateOf(BaseTod + 10), Null}}

\* cleaned open rows: two open times
DpOpenUniverse ==
  {[recipient_name |-> n, sent_date |-> d, Views |-> Num(3), Clicks |-> Num(1)] :
     n \in {sJaneLower, sBob}, d \in {DateOf(BaseTod + 10), DateOf(BaseTod + 15)}}

InitDataProcessor ==
  /\ tz = 0
  /\ \E sendDf \in SeqsUpTo(DpSendUniverse, MaxDpSends),
        openDf \in SeqsUpTo(DpOpenUniverse, MaxDpOpens) :
       joinIn = [sendRows |-> WithRef(sendDf, 1), openRows |-> openDf]
  /\ pc = "cleaned"
  /\ phase1Result = Null
  /\ phase2Result = Null
  /\ joinOut = Null
  /\ contactsIn = Null
  /\ contactsOut = Null
  /\ PipelineIdle

\* _joinSendOpen: const { successful, failed } = this._incrementalDatetimeJoin(...)
IncrementalDatetimeJoin ==
  /\ pc = "cleaned"
  /\ joinOut' = incrementalDatetimeJoin(joinIn.sendRows, joinIn.openRows)
  /\ pc' = "joined"
  /\ UNCHANGED <<joinIn, phase1Result, phase2Result, contactVars, tz, pipeVars, auxVars>>

NextDataProcessor == IncrementalDatetimeJoin

SpecDataProcessor == InitDataProcessor /\ [][NextDataProcessor]_vars

---------------------------------------------------------------------------
(* Properties of joinSendAndOpen (checked under SpecJoin) *)

JoinDone == pc = "join done"

\* the opens of the send's recipient (equal normalised recipient_name)
Bucket(send) ==
  {k \in 1..Len(joinIn.openRows) :
     NormKey(Get(joinIn.openRows[k], "recipient_name"))
       = NormKey(Get(send, "recipient_name"))}

\* the opens of `bucket` that are candidates of `send` at `increment`:
\* instant = send instant + increment seconds
CandidatesAt(bucket, send, increment) ==
  {k \in bucket : getTime(joinIn.openRows[k]["sent_date_parsed"])
                    = getTime(send["sent_date_parsed"]) + increment}

HasDate(send) == Truthy(send["sent_date_parsed"])

\* the rows of the join's output that stem from `send`
RowsOf(send) ==
  {j \in 1..Len(joinOut.sendOpenSuccess) :
     \A k \in DOMAIN send : Get(joinOut.sendOpenSuccess[j], k) = send[k]}

NullFilled(row) ==
  Get(row, "Views") = Null /\ Get(row, "Clicks") = Null /\ Get(row, "last_opened") = Null

\* C2 (as claimed): at the end of the join no open record has supplied the
\* Views/Clicks/last_opened of two different output rows.
C2_OpenSuppliesAtMostOneSend ==
  JoinDone =>
    \A i, j \in 1..Len(joinOut.from) :
      (i # j /\ joinOut.from[i] # Null) => joinOut.from[i] # joinOut.from[j]

\* two or more candidates at `increment`, none at any other increment in 0..60
TiedOnlyAt(bucket, send, increment) ==
  /\ HasDate(send)
  /\ Cardinality(CandidatesAt(bucket, send, increment)) >= 2
  /\ \A other \in (0..Phase2Last) \ {increment} : CandidatesAt(bucket, send, other) = {}

Tied(bucket, send) == \E increment \in 0..Phase2Last : TiedOnlyAt(bucket, send, increment)

\* C3: a send whose only candidates are two or more opens tied at one
\* increment comes out null-filled, merged with none of them.
C3_TieIsNullFilled ==
  JoinDone =>
    \A i \in 1..Len(joinIn.sendRows) : \A bucket \in {Bucket(joinIn.sendRows[i])} :
      Tied(bucket, joinIn.sendRows[i]) =>
        /\ RowsOf(joinIn.sendRows[i]) # {}
        /\ \A j \in RowsOf(joinIn.sendRows[i]) :
             /\ NullFilled(joinOut.sendOpenSuccess[j])
             /\ joinOut.from[j] = Null

\* a tie inside the Phase 1 window and a tie inside the Phase 2 window
C3_Witness ==
  /\ JoinDone
  /\ \E i \in 1..Len(joinIn.sendRows) : \E bucket \in {Bucket(joinIn.sendRows[i])} :
       \E increment \in 0..(Phase1End - 1) :
         TiedOnlyAt(bucket, joinIn.sendRows[i], increment)
  /\ \E i \in 1..Len(joinIn.sendRows) : \E bucket \in {Bucket(joinIn.sendRows[i])} :
       \E increment \in Phase2Start..Phase2Last :
         TiedOnlyAt(bucket, joinIn.sendRows[i], increment)

\* a send with no date, or with no candidate open at any increment in 0..60
Unmatchable(bucket, send) ==
  ~HasDate(send)
    \/ \A increment \in 0..Phase2Last : CandidatesAt(bucket, send, increment) = {}

\* C6: the join returns one row per input send row and no failures; the
\* rows of unmatched, ambiguous and undated sends are null-filled and carry
\* neither failure_reason nor match_count.
C6_LeftJoinKeepsEverySend ==
  JoinDone =>
    /\ Len(joinOut.sendOpenSuccess) = Len(joinIn.sendRows)
    /\ joinOut.sendOpenFailures = <<>>
    /\ \A i \in 1..Len(joinIn.sendRows) :
         Cardinality(RowsOf(joinIn.sendRows[i]))
           = Cardinality({k \in 1..Len(joinIn.sendRows) :
                            joinIn.sendRows[k] = joinIn.sendRows[i]})
    /\ Cardinality({j \in 1..Len(joinOut.from) : joinOut.from[j] = Null})
         = Len(phase2Result.failed)
    /\ \A j \in 1..Len(joinOut.sendOpenSuccess) :
         joinOut.from[j] = Null =>
           /\ NullFilled(joinOut.sendOpenSuccess[j])
           /\ "failure_reason" \notin DOMAIN joinOut.sendOpenSuccess[j]
           /\ "match_count" \notin DOMAIN joinOut.sendOpenSuccess[j]
    /\ \A i \in 1..Len(joinIn.sendRows) : \A bucket \in {Bucket(joinIn.sendRows[i])} :
         (Unmatchable(bucket, joinIn.sendRows[i]) \/ Tied(bucket, joinIn.sendRows[i])) =>
           \A j \in RowsOf(joinIn.sendRows[i]) :
             /\ NullFilled(joinOut.sendOpenSuccess[j])
             /\ "failure_reason" \notin DOMAIN joinOut.sendOpenSuccess[j]
             /\ "match_count" \notin DOMAIN joinOut.sendOpenSuccess[j]

\* an undated send and an ambiguous send both ended Phase 2 as failures
C6_Witness ==
  /\ JoinDone
  /\ \E f \in Range(phase2Result.failed) : f["failure_reason"] = Reason("invalid_send_date")
  /\ \E f \in Range(phase2Result.failed) : "match_count" \in DOMAIN f

\* the smallest increment in lo..hi at which `send` has a candidate among
\* the opens `pool`, or -1
FirstIncrement(pool, send, lo, hi) ==
  IF \E inc \in lo..hi : CandidatesAt(pool, send, inc) # {}
  THEN CHOOSE inc \in lo..hi :
         /\ CandidatesAt(pool, send, inc) # {}
         /\ \A less \in lo..(inc - 1) : CandidatesAt(pool, send, less) = {}
  ELSE -1

\* the open that is the only candidate of `send` at its smallest matching
\* increment in lo..hi among `pool`, or 0 when there is no such open
OnlyCandidate(pool, send, lo, hi) ==
  IF ~HasDate(send) THEN 0
  ELSE LET inc == FirstIncrement(pool, send, lo, hi)
       IN  IF inc >= 0 /\ Cardinality(CandidatesAt(pool, send, inc)) = 1
           THEN CHOOSE k \in CandidatesAt(pool, send, inc) : TRUE
           ELSE 0

Phase1Open(send) == OnlyCandidate(Bucket(send), send, 0, Phase1End - 1)

\* the opens no send has as its Phase 1 open
NotPhase1Opens ==
  {k \in 1..Len(joinIn.openRows) :
     \A i \in 1..Len(joinIn.sendRows) : Phase1Open(joinIn.sendRows[i]) # k}

\* the send has no open at all within 0..11 seconds
NoPhase1Candidate(send) ==
  HasDate(send) /\ FirstIncrement(Bucket(send), send, 0, Phase1End - 1) = -1

Multiplicity(send) ==
  Cardinality({k \in 1..Len(joinIn.sendRows) : joinIn.sendRows[k] = send})

StemsFrom(row, send) == \A k \in DOMAIN send : Get(row, k) = send[k]

\* C21: a send with exactly one candidate open at its smallest matching
\* increment in 0..11 is merged with that open and is not given to Phase 2;
\* Phase 1 consumes no other open on its account, and an open of the same
\* recipient 12..60 seconds after it is still merged in Phase 2 with a
\* different send that has it as its only candidate.
C21_PhasePrecedence ==
  JoinDone =>
    \A i \in 1..Len(joinIn.sendRows) :
      \A send \in {joinIn.sendRows[i]} : \A k \in {Phase1Open(send)} :
        k # 0 =>
          /\ Cardinality(RowsOf(send)) = Multiplicity(send)
          /\ \A j \in RowsOf(send) :
               /\ joinOut.from[j] = Num(k - 1)
               /\ joinOut.sendOpenSuccess[j]["last_opened"]
                    = joinIn.openRows[k]["sent_date"]
          /\ \A f \in Range(phase1Result.failed) : ~StemsFrom(f, send)
          /\ \A f \in Range(phase2Result.successful \o phase2Result.failed) :
               ~StemsFrom(f, send)
          /\ phase1Result.usedIndices
               = {Num(m - 1) : m \in (1..Len(joinIn.openRows)) \ NotPhase1Opens}
          /\ \A other \in Range(joinIn.sendRows) :
               \A m \in {OnlyCandidate(Bucket(other) \cap NotPhase1Opens, other,
                                        Phase2Start, Phase2Last)} :
                 (NoPhase1Candidate(other) /\ m # 0 /\ m \in Bucket(send)) =>
                   \A j \in RowsOf(other) : joinOut.from[j] = Num(m - 1)

\* one send is merged in Phase 1, and another open of its recipient, more
\* than 11 seconds after it, is merged with a different send in Phase 2
C21_Witness ==
  /\ JoinDone
  /\ \E send, other \in Range(joinIn.sendRows) :
       \E m \in Bucket(send) :
         /\ Phase1Open(send) \notin {0, m}
         /\ getTime(joinIn.openRows[m]["sent_date_parsed"])
              >= getTime(send["sent_date_parsed"]) + Phase2Start
         /\ other # send
         /\ NoPhase1Candidate(other)
         /\ \E j \in RowsOf(other) : joinOut.from[j] = Num(m - 1)
         /\ \E row \in Range(phase2Result.successful) : StemsFrom(row, other)

\* the opens that Phase 1 merged into some send
ConsumedInPhase1 ==
  {k \in 1..Len(joinIn.openRows) : Num(k - 1) \in Range(phase1Result.from)}

\* the opens of the send's recipient lying 12..60 seconds after it
Phase2Window(send) ==
  UNION {CandidatesAt(Bucket(send), send, inc) : inc \in Phase2Start..Phase2Last}

\* C22: no send is merged in Phase 2 with an open that Phase 1 merged into a
\* send; such an open does not count toward a Phase 2 ambiguity, and a send
\* whose opens 12..60 seconds after it were all consumed in Phase 1 finds
\* no match in Phase 2.
C22_ConsumedOpensStayOut ==
  JoinDone =>
    /\ \A j \in 1..Len(phase2Result.from) :
         phase2Result.from[j] \notin {Num(k - 1) : k \in ConsumedInPhase1}
    /\ \A f \in Range(phase2Result.failed) :
         Len(f["failure_reason"]) = 4 =>   \* multiple_matches_at_plus_N_seconds_phase2
           f["match_count"]
             = Num(Cardinality(CandidatesAt(Bucket(f) \ ConsumedInPhase1, f,
                                            f["failure_reason"][3])))
    /\ \A f \in Range(phase1Result.failed) :
         (HasDate(f) /\ Phase2Window(f) \subseteq ConsumedInPhase1) =>
           \E g \in Range(phase2Result.failed) :
             /\ \A k \in DOMAIN f \ {"failure_reason", "match_count"} : g[k] = f[k]
             /\ g["failure_reason"] = Reason("no_match_within_60_seconds")

\* a send that failed Phase 1 has, 12..60 seconds after it, an open that
\* Phase 1 merged into another send
C22_Witness ==
  /\ JoinDone
  /\ \E f \in Range(phase1Result.failed) :
       /\ HasDate(f)
       /\ Phase2Window(f) \cap ConsumedInPhase1 # {}

---------------------------------------------------------------------------
(* Properties of joinSendAndOpen on reordered rows (checked under          *)
(* SpecJoinOrder)                                                          *)

\* the rows of a sequence in the orders they can be given in
Reorderings(rows) ==
  {[i \in 1..Len(rows) |-> rows[p[i]]] : p \in Permutations(1..Len(rows))}

\* how many times each row occurs in a sequence
Occurrences(rows) ==
  [r \in Range(rows) |-> Cardinality({i \in 1..Len(rows) : rows[i] = r})]

\* C29: joinSendAndOpen gives every send the same outcome (the same merged
\* row or the same null-filled row) in whatever order the batch's send rows
\* and open rows are given; only the order of the output rows may differ.
C29_JoinIsOrderIndependent ==
  JoinDone =>
    \A sends \in Reorderings(joinIn.sendRows), opens \in Reorderings(joinIn.openRows) :
      Occurrences(joinSendAndOpen(sends, opens).sendOpenSuccess)
        = Occurrences(joinOut.sendOpenSuccess)

\* two different sends and two different opens: one send is merged, the
\* other is null-filled although an open of its recipient exists
C29_Witness ==
  /\ JoinDone
  /\ Len(joinIn.sendRows) = 2 /\ joinIn.sendRows[1] # joinIn.sendRows[2]
  /\ Len(joinIn.openRows) = 2 /\ joinIn.openRows[1] # joinIn.openRows[2]
  /\ \E j, k \in 1..Len(joinOut.sendOpenSuccess) :
       /\ ~NullFilled(joinOut.sendOpenSuccess[j])
       /\ NullFilled(joinOut.sendOpenSuccess[k])
       /\ \E send \in Range(joinIn.sendRows) : k \in RowsOf(send) /\ Bucket(send) # {}

---------------------------------------------------------------------------
(* Properties of joinWithContacts (checked under SpecContacts) *)

ContactsDone == pc = "contacts done"

HasUrl(row) == Truthy(Get(row, "Company URL"))
UrlOf(row) == trim(toLowerCase(row["Company URL"]))

\* the distinct normalised URLs among the first n successful rows
UrlsUpTo(n) ==
  {UrlOf(contactsOut.successful[j]) :
     j \in {k \in 1..n : HasUrl(contactsOut.successful[k])}}

\* the first successful row that carries the URL of row i
FirstWithUrlOf(i) ==
  CHOOSE k \in 1..i :
    /\ HasUrl(contactsOut.successful[k])
    /\ UrlOf(contactsOut.successful[k]) = UrlOf(contactsOut.successful[i])
    /\ \A m \in 1..(k - 1) :
         HasUrl(contactsOut.successful[m]) =>
           UrlOf(contactsOut.successful[m]) # UrlOf(contactsOut.successful[i])

\* C5: rows share a Company URL ID exactly when their normalised Company URL
\* is equal; the k-th distinct URL in output order gets ID k; a merged row
\* without Company URL gets no ID.
C5_CompanyUrlIds ==
  ContactsDone =>
    /\ \A i \in 1..Len(contactsOut.successful) :
         IF HasUrl(contactsOut.successful[i])
         THEN Get(contactsOut.successful[i], "Company URL ID")
                = Num(Cardinality(UrlsUpTo(FirstWithUrlOf(i))))
         ELSE "Company URL ID" \notin DOMAIN contactsOut.successful[i]
    /\ \A i, j \in 1..Len(contactsOut.successful) :
         (HasUrl(contactsOut.successful[i]) /\ HasUrl(contactsOut.successful[j])) =>
           ((contactsOut.successful[i]["Company URL ID"]
               = contactsOut.successful[j]["Company URL ID"])
            <=> (UrlOf(contactsOut.successful[i]) = UrlOf(contactsOut.successful[j])))

\* two rows whose URLs differ as written but not once normalised share an ID
C5_Witness ==
  /\ ContactsDone
  /\ \E i, j \in 1..Len(contactsOut.successful) :
       /\ HasUrl(contactsOut.successful[i]) /\ HasUrl(contactsOut.successful[j])
       /\ contactsOut.successful[i]["Company URL"] # contactsOut.successful[j]["Company URL"]
       /\ contactsOut.successful[i]["Company URL ID"]
            = contactsOut.successful[j]["Company URL ID"]

\* directory entry k has the row's normalised, non-empty Recipient Email
IsEntryFor(k, row) ==
  /\ NormKey(Get(row, "Recipient Email")) # EmptyStr
  /\ NormKey(Get(contactsIn.contacts[k], "Email")) = NormKey(Get(row, "Recipient Email"))

EntriesFor(row) == {k \in 1..Len(contactsIn.contacts) : IsEntryFor(k, row)}

InDirectory(row) == \E k \in 1..Len(contactsIn.contacts) : IsEntryFor(k, row)
NotInDirectory(row) == ~InDirectory(row)

\* the first entry, in directory order, for the row's e-mail
FirstEntry(row) ==
  contactsIn.contacts[CHOOSE k \in 1..Len(contactsIn.contacts) :
                        IsEntryFor(k, row) /\ \A m \in 1..(k - 1) : ~IsEntryFor(m, row)]

\* C7: every row goes to exactly one output; the successful rows are those
\* found in the directory, merged with the first entry for the e-mail whose
\* fields override the row's; the others fail with the fixed reason.
C7_ContactJoinSplit ==
  ContactsDone =>
    \A found \in {SelectSeq(contactsIn.rows, InDirectory)},
       missing \in {SelectSeq(contactsIn.rows, NotInDirectory)} :
        /\ Len(contactsOut.successful) = Len(found)
        /\ Len(contactsOut.contactFailures) = Len(missing)
        /\ \A j \in 1..Len(found) : \A entry \in {FirstEntry(found[j])} :
             /\ \A k \in DOMAIN entry : Get(contactsOut.successful[j], k) = entry[k]
             /\ \A k \in (DOMAIN found[j]) \ (DOMAIN entry) :
                  Get(contactsOut.successful[j], k) = found[j][k]
             /\ "failure_reason" \notin DOMAIN contactsOut.successful[j]
        /\ \A j \in 1..Len(missing) :
             contactsOut.contactFailures[j]
               = With(missing[j], "failure_reason",
                      Reason("Send email not found in contacts"))

\* a row found under a duplicated e-mail whose first entry overrides one of
\* its fields, next to a row that is not in the directory
C7_Witness ==
  /\ ContactsDone
  /\ Len(contactsOut.contactFailures) > 0
  /\ \E i \in 1..Len(contactsIn.rows) :
       /\ Cardinality(EntriesFor(contactsIn.rows[i])) >= 2
       /\ \E k \in DOMAIN contactsIn.rows[i] :
            /\ k \in DOMAIN FirstEntry(contactsIn.rows[i])
            /\ FirstEntry(contactsIn.rows[i])[k] # contactsIn.rows[i][k]

---------------------------------------------------------------------------
(* Properties of the entry points (checked under Spec) *)

MultiReturned == pc = "multi returned"
Returned == pc \in {"multi returned", "single returned"}
Ended == pc \in {"multi returned", "multi thrown", "single returned", "single thrown"}

\* the batches whose files the finished call was given
BatchesRead == IF pc = "single returned" THEN {1} ELSE DOMAIN sdrConfigs

InputSendRows == UNION {Range(sdrConfigs[b].sendCsv) : b \in BatchesRead}

\* how many rows of an output list come from the send row `send`
TimesIn(rows, send) ==
  Cardinality({i \in 1..Len(rows) : Get(rows[i], "Ref") = send["Ref"]})

\* the text contains "loopwork.co", letter case ignored
ContainsLoopwork(text) ==
  \E i \in 0..(Len(text) - Len(LoopworkDomain)) :
    \A j \in 1..Len(LoopworkDomain) : LowerChar(text[i + j]) = LoopworkDomain[j]

\* the send row survives normalizeSend applied to its file
KeptByNormalizeSend(send) ==
  \E b \in BatchesRead :
    \E kept \in {normalizeSend(sdrConfigs[b].sendCsv)} :
      \E i \in 1..Len(kept) : Get(kept[i], "Ref") = send["Ref"]

\* the domain text of a send row: its Domain column, or its `domain` column
\* when Domain is empty or absent
DomainText(send) ==
  IF Truthy(Get(send, "Domain")) THEN send["Domain"]
  ELSE IF Truthy(Get(send, "domain")) THEN send["domain"]
  ELSE EmptyStr

\* C1 (as stated): after either entry point returns, every send row that
\* domain exclusion did not remove is in exactly one of successful and failed,
\* rows with an unparseable sent_date included, so that
\* len(successful) + len(failed) = stats.total_send_records.
C1_EverySendRowIsReported ==
  Returned =>
    /\ \A send \in InputSendRows :
         ~ContainsLoopwork(DomainText(send)) =>
           TimesIn(result.successful, send) + TimesIn(result.failed, send) = 1
    /\ Len(result.successful) + Len(result.failed) = result.stats.total_send_records

\* the input of the end-to-end scenario: one send, one open, one contact
C4_Input ==
  /\ Len(sdrConfigs) = 1
  /\ sdrConfigs[1].sendCsv = WithRef(<<Jane("Domain")>>, 1)
  /\ sdrConfigs[1].openCsv = <<JaneOpen>>
  /\ contactsCsv = <<JaneContact>>

\* C4 (as stated): on Jane's send of 09:14:21Z, her open of 09:14:25Z and her
\* contact with Company URL ex.com, the pipeline returns exactly one
\* successful row, with Views = 3, Clicks = 1 and Company URL ID = 1, and no
\* failed row.
C4_EndToEndScenario ==
  (C4_Input /\ pc \notin {"start", "multi loop"}) =>
    /\ Returned
    /\ Len(result.successful) = 1
    /\ Get(result.successful[1], "Views") = Num(3)
    /\ Get(result.successful[1], "Clicks") = Num(1)
    /\ Get(result.successful[1], "Company URL ID") = Num(1)
    /\ result.failed = <<>>

\* C8 (as stated): a send row whose Domain contains "loopwork.co" in any
\* letter case is in neither output list, is not counted in
\* total_send_records and does not survive normalizeSend; every send row
\* whose Domain does not contain it survives normalizeSend.
C8_DomainColumnDecides ==
  Returned =>
    /\ \A send \in InputSendRows :
         IF ContainsLoopwork(Get(send, "Domain"))
         THEN /\ TimesIn(result.successful, send) = 0
              /\ TimesIn(result.failed, send) = 0
              /\ ~KeptByNormalizeSend(send)
         ELSE KeptByNormalizeSend(send)
    /\ result.stats.total_send_records =
         Cardinality({send \in InputSendRows : ~ContainsLoopwork(Get(send, "Domain"))})

\* C8 (amended): a send row whose domain text -- its Domain column, or its
\* `domain` column when Domain is empty or absent -- contains "loopwork.co"
\* in any letter case is in neither output list, is not counted in
\* total_send_records and does not survive normalizeSend; every other send
\* row survives normalizeSend.
C8_DomainExclusion ==
  Returned =>
    /\ \A send \in InputSendRows :
         IF ContainsLoopwork(DomainText(send))
         THEN /\ TimesIn(result.successful, send) = 0
              /\ TimesIn(result.failed, send) = 0
              /\ ~KeptByNormalizeSend(send)
         ELSE KeptByNormalizeSend(send)
    /\ result.stats.total_send_records =
         Cardinality({send \in InputSendRows : ~ContainsLoopwork(DomainText(send))})

\* a call returned whose send files held a row with Domain "mail.LoopWork.co"
\* and a row with another Domain whose `domain` column is "mail.LoopWork.co"
C8_Witness ==
  /\ Returned
  /\ \E send \in InputSendRows : Get(send, "Domain") = sMixedLoopwork
  /\ \E send \in InputSendRows :
       /\ Get(send, "Domain") = sExUrl
       /\ Get(send, "domain") = sMixedLoopwork
       /\ TimesIn(result.successful, send) + TimesIn(result.failed, send) = 1

\* the label of batch b: its name, or "SDR" when the name is empty
LabelOf(b) == IF sdrConfigs[b].name = EmptyStr THEN sSDR ELSE sdrConfigs[b].name

\* C9 (as stated): every row of successful and of failed that
\* processMultiSdrPipeline returns has SDR_Name equal to the label of the
\* batch whose send file the row came from, whatever the contacts hold.
C9_RowsCarryBatchLabel ==
  MultiReturned =>
    \A rows \in {result.successful, result.failed} :
      \A i \in 1..Len(rows) :
        Get(rows[i], "SDR_Name") = LabelOf(rows[i]["Ref"][2])

RECURSIVE SumOver(_, _)
SumOver(stats, field) ==
  IF stats = <<>> THEN 0 ELSE stats[1][field] + SumOver(Tail(stats), field)

\* C10: in every output of processMultiSdrPipeline the per-batch
\* total_send_records, matched and failures add up to the global
\* total_send_records, send_open_success and send_open_failures, and
\* contact_join_success + contact_join_failures = send_open_success with
\* contact_join_success = len(successful).
C10_StatsAddUp ==
  MultiReturned =>
    /\ SumOver(result.sdrStats, "total_send_records") = result.stats.total_send_records
    /\ SumOver(result.sdrStats, "matched") = result.stats.send_open_success
    /\ SumOver(result.sdrStats, "failures") = result.stats.send_open_failures
    /\ result.stats.contact_join_success + result.stats.contact_join_failures
         = result.stats.send_open_success
    /\ result.stats.contact_join_success = Len(result.successful)

\* two batches returned, with rows on both sides of the contact join and a
\* send row that did not reach the send/open join
C10_Witness ==
  /\ MultiReturned
  /\ Len(result.sdrStats) = 2
  /\ result.stats.contact_join_success > 0
  /\ result.stats.contact_join_failures > 0
  /\ result.stats.total_send_records > result.stats.send_open_success

\* a parsed file with at least one row whose header line has the columns
HasRowsAndColumns(file, cols) ==
  Len(file) > 0 /\ cols \subseteq DOMAIN file[1]

\* every source file of the call has at least one row and its required columns
EveryFileUsable ==
  /\ Len(sdrConfigs) > 0
  /\ \A b \in 1..Len(sdrConfigs) :
       /\ HasRowsAndColumns(sdrConfigs[b].sendCsv, SendRequired)
       /\ HasRowsAndColumns(sdrConfigs[b].openCsv, OpenRequired)
  /\ HasRowsAndColumns(contactsCsv, ContactRequired)

\* C17: when the batch list is not empty and every source file has at least
\* one row and all required columns, processMultiSdrPipeline raises no error,
\* whatever the dates of the sends and the outcome of the matching.
C17_UsableFilesNeverAbort ==
  EveryFileUsable => pc # "multi thrown"

\* the join outcome a row carries: the send it came from and what it took
\* from the open it was merged with (nulls when it was merged with none)
JoinOutcome(row) ==
  <<Get(row, "Ref"), Get(row, "Views"), Get(row, "Clicks"), Get(row, "last_opened")>>

\* the outcomes of batch b's sends in the output of the whole call
OutcomesInResult(b) ==
  {JoinOutcome(row) : row \in {r \in Range(result.successful \o result.failed) :
                                  r["Ref"][2] = b}}

\* the outcomes of batch b's sends when its two files are joined alone
OutcomesAlone(b) ==
  {JoinOutcome(row) :
     row \in Range(JoinValid(normalizeSend(sdrConfigs[b].sendCsv),
                             normalizeOpen(sdrConfigs[b].openCsv)).sendOpenSuccess)}

\* C18: in the output of processMultiSdrPipeline the join outcome of every
\* send of a batch (the open it is merged with, or null) is the outcome it
\* has when the batch's own send and open file are joined alone, also when
\* batches share recipients and timestamps.
C18_BatchesAreIsolated ==
  MultiReturned =>
    \A b \in DOMAIN sdrConfigs : OutcomesInResult(b) = OutcomesAlone(b)

\* two batches send to the same recipient at the same time, each has an open
\* for it in its own file, and each send is merged with an open
C18_Witness ==
  /\ MultiReturned
  /\ Len(sdrConfigs) = 2
  /\ \A b \in {1, 2} : \E i \in DOMAIN sdrConfigs[b].openCsv :
       sdrConfigs[b].openCsv[i] = BobOpen
  /\ \E r1, r2 \in Range(result.successful \o result.failed) :
       /\ r1["Ref"][2] = 1 /\ r2["Ref"][2] = 2
       /\ r1["Recipient Email"] = sBobMail /\ r2["Recipient Email"] = sBobMail
       /\ r1["sent_date"] = r2["sent_date"]
       /\ Get(r1, "Views") = Num(3) /\ Get(r2, "Views") = Num(3)

\* the instant normalizeOpen and the date parsing leave in sent_date_parsed
\* for an open row of a source file
ParsedInstantOf(open) ==
  ParseDates(normalizeOpen(<<open>>))[1]["sent_date_parsed"]

\* C23: for every open row whose source sent_date is a date, the instant in
\* sent_date_parsed, read back from the DD/MM/YYYY HH:MM:SS text that
\* normalizeOpen writes, is the instant the source value denotes, whatever
\* its day and month are.
C23_OpenInstantIsKept ==
  pc # "start" =>
    \A b \in DOMAIN sdrConfigs : \A open \in Range(sdrConfigs[b].openCsv) :
      NativeDate(open["sent_date"]) # Null =>
        ParsedInstantOf(open) = NativeDate(open["sent_date"])

\* the batch a row of the pipeline stems from
BatchOf(row) == row["Ref"][2]

\* rows of an earlier batch come before the rows of a later batch
InBatchOrder(rows) ==
  \A i, j \in 1..Len(rows) : i < j => BatchOf(rows[i]) <= BatchOf(rows[j])

\* where the send of the row stands in the rows given to the contact merge
GivenAt(row) ==
  CHOOSE k \in 1..Len(run.allSendOpenSuccess) :
    run.allSendOpenSuccess[k]["Ref"] = row["Ref"]

\* the rows stand in the order in which the contact merge was given them
InGivenOrder(rows) ==
  \A i, j \in 1..Len(rows) : i < j => GivenAt(rows[i]) < GivenAt(rows[j])

\* C30: while the batches are processed the accumulated rows are in batch
\* order and stem from the batches already processed; in the `successful`
\* and `failed` sequences that processMultiSdrPipeline returns every row of
\* an earlier batch precedes every row of a later batch, and the rows of
\* each sequence keep the relative order in which the contact merge was
\* given them.
C30_OutputFollowsBatchOrder ==
  /\ pc = "multi loop" =>
       /\ InBatchOrder(run.allSendOpenSuccess)
       /\ \A row \in Range(run.allSendOpenSuccess) : BatchOf(row) < run.next
  /\ MultiReturned =>
       /\ InBatchOrder(result.successful) /\ InBatchOrder(result.failed)
       /\ InGivenOrder(result.successful) /\ InGivenOrder(result.failed)

\* two batches were processed and `successful` holds rows of both
C30_Witness ==
  /\ MultiReturned
  /\ Len(sdrConfigs) = 2
  /\ \E i, j \in 1..Len(result.successful) :
       /\ i < j
       /\ BatchOf(result.successful[i]) = 1
       /\ BatchOf(result.successful[j]) = 2

---------------------------------------------------------------------------
(* Properties of column aliasing (checked under SpecAlias) *)

\* the value normalizeSend leaves under recipient_name is the trimmed cell
CleanedSendCell(canon, cell) == IF canon = "recipient_name" THEN trim(cell) ELSE cell

\* every required field of the row has its canonical column or its alias
SendHeaderSuppliesRequired(row) ==
  \A pair \in SendAliases : pair[1] \in DOMAIN row \/ pair[2] \in DOMAIN row

\* C24: a send row with an alias column and no canonical column comes out
\* of normalizeSend with the alias's value under the canonical name,
\* whatever the value is (an empty cell included); a send file whose header
\* has the canonical column or the alias of every required field is not
\* refused for missing columns.
C24_AliasSuppliesCanonical ==
  pc # "start" =>
    \A row \in Range(sdrConfigs[1].sendCsv) :
      /\ \A pair \in SendAliases :
           (pair[1] \in DOMAIN row /\ pair[2] \notin DOMAIN row) =>
             /\ pair[2] \in DOMAIN NormalizeSendRow(row)
             /\ NormalizeSendRow(row)[pair[2]] = CleanedSendCell(pair[2], row[pair[1]])
      /\ (Ended /\ SendHeaderSuppliesRequired(row)) =>
           ~(result.status = "thrown" /\ result.message = "missing required columns")

\* C25: a send, open or contact row that has the canonical column and the
\* alias column of a field comes out of normalisation with the canonical
\* field it has without the alias column, whatever the canonical cell holds
\* (an empty cell included).
C25_CanonicalWins ==
  pc # "start" =>
    /\ \A row \in Range(sdrConfigs[1].sendCsv) : \A pair \in SendAliases :
         {pair[1], pair[2]} \subseteq DOMAIN row =>
           NormalizeSendRow(row)[pair[2]]
             = NormalizeSendRow(Delete(row, pair[1]))[pair[2]]
    /\ \A row \in Range(sdrConfigs[1].openCsv) : \A pair \in OpenAliases :
         {pair[1], pair[2]} \subseteq DOMAIN row =>
           NormalizeOpenRow(row)[pair[2]]
             = NormalizeOpenRow(Delete(row, pair[1]))[pair[2]]
    /\ \A row \in Range(contactsCsv) : \A pair \in ContactAliases :
         {pair[1], pair[2]} \subseteq DOMAIN row =>
           NormalizeContactRow(row)[pair[2]]
             = NormalizeContactRow(Delete(row, pair[1]))[pair[2]]

---------------------------------------------------------------------------
(* Properties of a repeated call (checked under SpecTwice) *)

SecondCallEnded == IsEarlier(previous) /\ pc \in {"multi returned", "multi thrown"}

\* C19: a second call of processMultiSdrPipeline with the same arguments ends
\* as the first did, with the same successful and failed rows in the same
\* order, the same Company URL IDs and the same stats.
C19_SecondRunIsIdentical ==
  SecondCallEnded => result = previous[2]

\* the second call has returned rows of two companies, numbered 1 and 2
C19_Witness ==
  /\ SecondCallEnded
  /\ pc = "multi returned"
  /\ {Get(row, "Company URL ID") : row \in Range(result.successful)}
       = {Num(1), Num(2)}

---------------------------------------------------------------------------
(* Properties of validateSdrSendData (checked under SpecValidate) *)

Validated == pc = "validated" /\ "successful" \in DOMAIN result

HasStats == "stats" \in DOMAIN result
HasSdrStats == "sdrStats" \in DOMAIN result

\* the errors of the returned results whose message starts with `text`
ErrorsNamed(text) == {e \in Range(validation.errors) : e[1] = text}

\* C11 (as stated): for every stats object whose total_send_records differs
\* from send_open_success + send_open_failed, a total of 0 included,
\* validateSdrSendData returns passed = false with an error that names the
\* total and the sum.
C11_StatsInconsistencyReported ==
  (Validated /\ HasStats /\ "send_open_failed" \in DOMAIN result["stats"]) =>
    \A total \in {result["stats"]["total_send_records"]},
       sum \in {result["stats"]["send_open_success"]
                  + result["stats"]["send_open_failed"]} :
      total # sum =>
        /\ validation.passed = FALSE
        /\ \E e \in ErrorsNamed("Stats inconsistency") : e[2] = total /\ e[5] = sum

\* C12 (as stated): when the rows present in successful plus failed differ
\* in number from stats.total_send_records, validateSdrSendData returns
\* passed = false with a data-mismatch error; when the two are equal there is
\* no data-mismatch error.
C12_RowCountMismatchReported ==
  (Validated /\ HasStats) =>
    \A rows \in {Len(result["successful"]) + Len(result["failed"])},
       total \in {result["stats"]["total_send_records"]} :
      IF rows # total
      THEN /\ validation.passed = FALSE
           /\ \E e \in ErrorsNamed("Data mismatch") : e[2] = rows /\ e[3] = total
      ELSE ErrorsNamed("Data mismatch") = {}

\* C13 (as stated): when emailData has sdrStats, validateSdrSendData
\* returns passed = false whenever the batches' total_send_records, matched
\* or failures do not add up to total_send_records, send_open_success or
\* send_open_failures of the stats the pipeline writes, a global value of 0
\* included.
C13_BatchSumsReported ==
  (Validated /\ HasStats /\ HasSdrStats
     /\ "send_open_failures" \in DOMAIN result["stats"]) =>
    ((\/ SumOver(result["sdrStats"], "total_send_records")
           # result["stats"]["total_send_records"]
      \/ SumOver(result["sdrStats"], "matched")
           # result["stats"]["send_open_success"]
      \/ SumOver(result["sdrStats"], "failures")
           # result["stats"]["send_open_failures"])
       => validation.passed = FALSE)

\* C15 (as stated): validateSdrSendData gives a warning with the count of
\* successful rows without a recipient e-mail when there are any, a warning
\* with the count of successful rows with zero or empty Views when there are
\* any, and neither warning changes passed.
C15_QualityWarnings ==
  Validated =>
    \A rows \in {result["successful"]} :
      \A noEmail \in {Cardinality({i \in 1..Len(rows) :
                         /\ Get(rows[i], "Recipient Email") \in {Undefined, Null, EmptyStr}
                         /\ Get(rows[i], "Email") \in {Undefined, Null, EmptyStr}})},
         noViews \in {Cardinality({i \in 1..Len(rows) :
                         Get(rows[i], "Views") \in {Undefined, Null, EmptyStr, Num(0)}})} :
        /\ noEmail > 0 =>
             \E w \in Range(validation.warnings) :
               w = <<"records missing recipient email addresses", noEmail>>
        /\ noViews > 0 =>
             \E w \in Range(validation.warnings) :
               w[1] # "records missing recipient email addresses" /\ w[2] = noViews
        /\ validation.passed = (validation.errors = <<>>)

---------------------------------------------------------------------------
(* Properties of compareRawVsProcessed (checked under SpecCompare) *)

Compared == pc = "compared" /\ HasSdrStats

\* the per-batch errors of the returned results
BatchErrors == {e \in Range(validation.errors) : e[1] = "SDR"}

\* the batches whose send file has another number of rows than their entry
\* of sdrStats reports
BatchesThatDiffer ==
  {i \in 1..Len(sdrConfigs) :
     Len(sdrConfigs[i].sendCsv) # result["sdrStats"][i]["total_send_records"]}

\* C14 (as stated): compareRawVsProcessed reports a per-batch error, with
\* the batch's name and the two counts, for exactly the batches whose send
\* file's row count differs from the batch's reported total_send_records,
\* and none when the two are equal, whatever the names of the batches.
C14_PerBatchErrors ==
  Compared =>
    BatchErrors =
      {<<"SDR", result["sdrStats"][i]["name"], Len(sdrConfigs[i].sendCsv),
         result["sdrStats"][i]["total_send_records"]>> : i \in BatchesThatDiffer}

---------------------------------------------------------------------------
(* Properties of the open file's columns and counts (checked under         *)
(* SpecOpenFile) *)

\* the columns of the file's header line
OpenColumns == DOMAIN sdrConfigs[1].openCsv[1]

\* the required fields the file does not supply
MissingOpenFields ==
  (IF OpenColumns \cap {"Views", "Opens"} = {} THEN {"Views"} ELSE {})
    \cup (IF "Clicks" \in OpenColumns THEN {} ELSE {"Clicks"})

\* C16: when the open file has rows but neither a Views nor an Opens column,
\* or no Clicks column, the call ends with an error that names the missing
\* required fields, and produces no output.
C16_MissingCountColumnsFail ==
  (Ended /\ Len(sdrConfigs[1].openCsv) > 0 /\ MissingOpenFields # {})
    => /\ result.status = "thrown"
       /\ result.message = "missing required columns"
       /\ result.missing = MissingOpenFields

\* a count as the open format defines it: an integer that is not negative
IsCount(v) == IsNum(v) /\ v[2] >= 0

\* C20: once the open file has been normalised, the Views and the Clicks of
\* every open record are non-negative integers, whatever the file's cells
\* hold (negative and fractional numerals included).
C20_CountsAreNonNegativeIntegers ==
  pc # "start" =>
    \A open \in Range(normalizeOpen(sdrConfigs[1].openCsv)) :
      IsCount(open["Views"]) /\ IsCount(open["Clicks"])

---------------------------------------------------------------------------
(* Properties of DataProcessor._incrementalDatetimeJoin (checked under     *)
(* SpecDataProcessor) *)

\* the opens of the send's recipient whose instant is the send's plus
\* `increment` seconds
DpCandidatesAt(send, increment) ==
  {k \in 1..Len(joinIn.openRows) :
     /\ DpEmail(joinIn.openRows[k]) = DpEmail(send)
     /\ getTime(joinIn.openRows[k]["sent_date"]) = getTime(send["sent_date"]) + increment}

\* two or more opens of the send's recipient fall on the first increment in
\* 0..60 that has any
DpAmbiguous(send) ==
  /\ DpEmail(send) # EmptyStr
  /\ IsDate(send["sent_date"])
  /\ \E increment \in 0..DpLastIncrement :
       /\ Cardinality(DpCandidatesAt(send, increment)) >= 2
       /\ \A less \in 0..(increment - 1) : DpCandidatesAt(send, less) = {}

\* C26: in the output of _incrementalDatetimeJoin a send with two or more
\* opens of its recipient on the same increment is merged with none of
\* them: its row carries no open's Views or Clicks.
C26_AmbiguityIsAHardStop ==
  pc = "joined" =>
    \A send \in Range(joinIn.sendRows) :
      DpAmbiguous(send) =>
        \A row \in Range(joinOut.successful) :
          row["Ref"] = send["Ref"] =>
            ~Truthy(Get(row, "Views")) /\ ~Truthy(Get(row, "Clicks"))

---------------------------------------------------------------------------
(* Properties of runDataValidation on the pipeline's output (checked under *)
(* SpecChecked) *)

\* C27: for every call of processMultiSdrPipeline that returns,
\* runDataValidation on its output and the same batch list reports
\* overallPassed with no errors, also when send files hold rows with
\* unparseable dates or rows removed by the domain exclusion.
C27_CheckerAcceptsPipelineOutput ==
  pc = "checked" =>
    /\ validation.overallPassed
    /\ validation.summary.totalErrors = 0

---------------------------------------------------------------------------
(* Properties of the header pre-validation (checked under SpecHeaders) *)

\* C28: when the header lines of the send, open and contacts files (each
\* with a row whose cells are all filled) are accepted by the header
\* validators, the pipeline's required-column check after normalisation
\* refuses none of the files.
C28_AcceptedHeadersPassPipeline ==
  pc \in {"multi returned", "multi thrown"} =>
    ~(result.status = "thrown" /\ result.message = "missing required columns")

====
